---- MODULE Spec2Model ----
(***************************************************************************)
(* Verification model of the xbase transistor-array placement core:        *)
(*   - TilePatternElement / TilePattern   (mos/placement/data.py)          *)
(*   - MOSUsedArray                       (mos/util.py)                    *)
(*   - TileInfoTable save / load          (mos/placement/data.py)          *)
(*   - WireGraph place_compact/align_wires (wires.py)                      *)
(* Track indices (HalfInt) are represented by their doubled integer value. *)
(***************************************************************************)
EXTENDS Integers, Sequences, FiniteSets, TLC

\* ------------------------------------------------------------------------
\* Bounds of the model
\* ------------------------------------------------------------------------
MaxMult == 2        \* largest repeat count of a pattern element
MaxExtra == 2       \* tiles queried beyond num_tiles (elements repeat indefinitely)
MaxOps == 2         \* calls made on the MOSUsedArray
MaxCol == 1         \* largest column index passed to the MOSUsedArray
MaxHalfTrack == 3   \* largest doubled track index stored in a saved table
MaxPriority == 1    \* largest extend priority of a saved tile
MaxGrpLen == 2      \* most wires in one wire group
MaxGrow == 1        \* track pitches added to the upper coordinate when aligning
SigSupSpace == 8    \* doubled separation configured between a sig and a sup wire

BlkHPitch == 2      \* tech_cls.blk_h_pitch
TotHPitch == 4      \* height quantum of the top layer
max_iter == 1000    \* iterations get_extend tries
ConnSpLe == 2       \* line-end spacing of the connection layer
place_max_iter == 100   \* iterations _place_rows tries to fix line-end spacing
MaxMargin == 5      \* largest margin asked of get_extend
MaxIterArg == 3     \* largest max_iter argument given to get_extend
MaxWmin == 3        \* largest w_min of an ExtWidthInfo
MaxStep == 3        \* largest step_size of an ExtWidthInfo
MaxWidth == 6       \* largest width asked of get_next_width
MaxY == 80          \* largest row top the top_mirror loop is followed to

Max(a, b) == IF a >= b THEN a ELSE b
Min(a, b) == IF a <= b THEN a ELSE b
Xor(a, b) == a # b
Odd(n) == n % 2 = 1

\* ------------------------------------------------------------------------
\* Tiles (MOSBasePlaceInfo): only name, num_rows and height matter to the
\* tile algebra.  Tile "A" has two rows, tile "B" one row.
\* ------------------------------------------------------------------------
TileNames == {"A", "B"}
tile_num_rows(t) == IF t = "A" THEN 2 ELSE 1
tile_height(t) == IF t = "A" THEN 3 ELSE 5

\* self._info of a TilePatternElement: a MOSBasePlaceInfo or a TilePattern
InfoTile(t) == [leaf |-> TRUE, tile |-> t, pat |-> <<>>]
InfoPattern(p) == [leaf |-> FALSE, tile |-> "", pat |-> p]

TilePatternElement(info, mirror, flip, mult) ==
    [info |-> info, mirror |-> mirror, flip |-> flip, mult |-> mult]

\* value standing for "raise ValueError" in _get_sub_pattern_element_helper
ErrElement == TilePatternElement(InfoPattern(<<>>), FALSE, FALSE, 0)

RECURSIVE E_num_rows(_), E_num_tiles(_), E_height(_)
RECURSIVE P_nrow_list(_, _), P_ntile_list(_, _), P_dy_list(_, _)
RECURSIVE E_num_tiles_to_rows(_, _), P_num_tiles_to_rows(_, _)
RECURSIVE E_get_tile_info(_, _), P_get_tile_info(_, _)
RECURSIVE E_flat_row_to_tile_row(_, _), P_flat_row_to_tile_row(_, _)
RECURSIVE E_get_sub_pattern_element(_, _, _, _, _, _)
RECURSIVE P_get_sub_pattern_element(_, _, _, _, _, _)
RECURSIVE P_get_sub_loop(_, _, _, _)
RECURSIVE E_get_sub_pattern_element_helper(_, _, _, _, _)
RECURSIVE E_append_sub_pattern(_, _, _, _), P_append_sub_pattern(_, _, _, _)
RECURSIVE P_append_loop(_, _, _, _, _)

\* TilePattern.__init__: prefix sums; X_list(p, i) is self._X_list[i]
P_nrow_list(p, i) == IF i = 0 THEN 0 ELSE P_nrow_list(p, i - 1) + E_num_rows(p[i])
P_ntile_list(p, i) == IF i = 0 THEN 0 ELSE P_ntile_list(p, i - 1) + E_num_tiles(p[i])
P_dy_list(p, i) == IF i = 0 THEN 0 ELSE P_dy_list(p, i - 1) + E_height(p[i])

P_num_rows(p) == P_nrow_list(p, Len(p))
P_num_tiles(p) == P_ntile_list(p, Len(p))
P_height(p) == P_dy_list(p, Len(p))

Info_num_rows(info) == IF info.leaf THEN tile_num_rows(info.tile) ELSE P_num_rows(info.pat)
Info_height(info) == IF info.leaf THEN tile_height(info.tile) ELSE P_height(info.pat)

E_num_rows(e) == Info_num_rows(e.info) * e.mult
E_num_tiles_unit(e) == IF e.info.leaf THEN 1 ELSE P_num_tiles(e.info.pat)
E_num_tiles(e) == E_num_tiles_unit(e) * e.mult
E_height(e) == Info_height(e.info) * e.mult

\* variant: the repetition parity is ignored
get_flip_unit_NoMirror(e, unit_idx) == e.flip

\* ((unit_idx & 1) and self._mirror) ^ self._flip
get_flip_unit(e, unit_idx) == Xor(Odd(unit_idx) /\ e.mirror, e.flip)

\* bisect_right(self._ntile_list, tile_idx) - 1, as a 0-based list index
P_get_element_idx(p, tile_idx) ==
    Cardinality({i \in 0..Len(p) : P_ntile_list(p, i) <= tile_idx}) - 1

\* bisect_right(self._nrow_list, flat_row_idx) - 1
P_get_row_element_idx(p, flat_row_idx) ==
    Cardinality({i \in 0..Len(p) : P_nrow_list(p, i) <= flat_row_idx}) - 1

E_num_tiles_to_rows(e, num_tiles) ==
    IF e.info.leaf THEN num_tiles * tile_num_rows(e.info.tile)
    ELSE IF num_tiles = 0 THEN 0
    ELSE LET pat_ntile == P_num_tiles(e.info.pat)
             q == num_tiles \div pat_ntile
             r == num_tiles % pat_ntile
             ans == q * P_num_rows(e.info.pat)
         IN IF get_flip_unit(e, q)
            THEN ans + P_num_rows(e.info.pat)
                     - P_num_tiles_to_rows(e.info.pat, pat_ntile - r)
            ELSE ans + P_num_tiles_to_rows(e.info.pat, r)

P_num_tiles_to_rows(p, num_tiles) ==
    IF num_tiles = 0 THEN 0
    ELSE LET list_idx == P_get_element_idx(p, num_tiles - 1)
             tile_offset == P_ntile_list(p, list_idx)
         IN P_nrow_list(p, list_idx)
              + E_num_tiles_to_rows(p[list_idx + 1], num_tiles - tile_offset)

E_get_tile_info(e, tile_idx) ==
    IF e.info.leaf
    THEN [pinfo |-> e.info.tile, y0 |-> tile_idx * tile_height(e.info.tile),
          flip |-> get_flip_unit(e, tile_idx)]
    ELSE LET pat_ntile == P_num_tiles(e.info.pat)
             pat_height == P_height(e.info.pat)
             q == tile_idx \div pat_ntile
             r0 == tile_idx % pat_ntile
             flip_pat == get_flip_unit(e, q)
             r == IF flip_pat THEN pat_ntile - 1 - r0 ELSE r0
             ans == P_get_tile_info(e.info.pat, r)
             y0 == IF flip_pat THEN pat_height - ans.y0 - tile_height(ans.pinfo)
                   ELSE ans.y0
         IN [pinfo |-> ans.pinfo, y0 |-> y0 + q * pat_height,
             flip |-> Xor(ans.flip, flip_pat)]

\* variant: the element's y offset in the pattern is not added
P_get_tile_info_NoOffset(p, tile_idx) ==
    LET list_idx == P_get_element_idx(p, tile_idx)
        tile_offset == P_ntile_list(p, list_idx)
    IN E_get_tile_info(p[list_idx + 1], tile_idx - tile_offset)

P_get_tile_info(p, tile_idx) ==
    LET list_idx == P_get_element_idx(p, tile_idx)
        tile_offset == P_ntile_list(p, list_idx)
        ans == E_get_tile_info(p[list_idx + 1], tile_idx - tile_offset)
    IN [pinfo |-> ans.pinfo, y0 |-> ans.y0 + P_dy_list(p, list_idx), flip |-> ans.flip]

E_get_tile_pinfo(e, tile_idx) == E_get_tile_info(e, tile_idx).pinfo

E_get_flat_row_idx_and_flip(e, tile_idx, row_idx) ==
    LET ans == E_num_tiles_to_rows(e, tile_idx)
        ti == E_get_tile_info(e, tile_idx)
    IN IF ti.flip
       THEN [row |-> ans + tile_num_rows(ti.pinfo) - row_idx - 1, flip |-> ti.flip]
       ELSE [row |-> ans + row_idx, flip |-> ti.flip]

E_flat_row_to_tile_row(e, flat_row_idx) ==
    IF e.info.leaf
    THEN LET num_rows == tile_num_rows(e.info.tile)
             tile_idx == flat_row_idx \div num_rows
             row_idx == flat_row_idx % num_rows
         IN IF get_flip_unit(e, tile_idx)
            THEN <<tile_idx, num_rows - 1 - row_idx>>
            ELSE <<tile_idx, row_idx>>
    ELSE LET pat_nrow == P_num_rows(e.info.pat)
             q == flat_row_idx \div pat_nrow
             r0 == flat_row_idx % pat_nrow
             r == IF get_flip_unit(e, q) THEN pat_nrow - 1 - r0 ELSE r0
             tr == P_flat_row_to_tile_row(e.info.pat, r)
         IN <<tr[1] + q * P_num_tiles(e.info.pat), tr[2]>>

P_flat_row_to_tile_row(p, flat_row_idx) ==
    LET list_idx == P_get_row_element_idx(p, flat_row_idx)
        row_offset == P_nrow_list(p, list_idx)
    IN E_flat_row_to_tile_row(p[list_idx + 1], flat_row_idx - row_offset)

\* variant: the flip of the first unit is negated, whatever the repetition
get_reverse_FirstUnit(e, mult) ==
    TilePatternElement(e.info, e.mirror, ~e.flip, mult)

get_reverse(e, mult) ==
    TilePatternElement(e.info, e.mirror, ~get_flip_unit(e, mult - 1), mult)

E_append_sub_pattern(e, ele_list, num_tiles, flip_element) ==
    LET unit == E_num_tiles_unit(e)
        q == num_tiles \div unit
        r == num_tiles % unit
        flip_q == IF flip_element THEN get_flip_unit(e, e.mult - 1) ELSE e.flip
        flip_r == IF flip_element THEN ~get_flip_unit(e, e.mult - 1 - q)
                  ELSE get_flip_unit(e, q)
        l1 == IF q > 0
              THEN Append(ele_list, TilePatternElement(e.info, e.mirror, flip_q, q))
              ELSE ele_list
    IN IF r > 0 THEN P_append_sub_pattern(e.info.pat, l1, r, flip_r) ELSE l1

\* one iteration of the for loop of TilePattern.append_sub_pattern; i = 1..Len(p)
P_append_loop(p, ele_list, num_tiles, flip_pattern, i) ==
    IF i > Len(p) THEN ele_list
    ELSE LET obj == IF flip_pattern THEN p[Len(p) + 1 - i] ELSE p[i]
             cur_num_tiles == E_num_tiles(obj)
         IN IF num_tiles >= cur_num_tiles
            THEN P_append_loop(p,
                     Append(ele_list,
                            IF flip_pattern THEN get_reverse(obj, obj.mult) ELSE obj),
                     num_tiles - cur_num_tiles, flip_pattern, i + 1)
            ELSE IF num_tiles > 0
                 THEN E_append_sub_pattern(obj, ele_list, num_tiles, flip_pattern)
                 ELSE ele_list

P_append_sub_pattern(p, ele_list, num_tiles, flip_pattern) ==
    P_append_loop(p, ele_list, num_tiles, flip_pattern, 1)

E_get_sub_pattern_element_helper(e, num_tiles, mult, mirror0, flip) ==
    IF num_tiles = 0 THEN ErrElement
    ELSE
    LET mirror == mirror0 /\ (mult > 1)
        unit == E_num_tiles_unit(e)
        q == num_tiles \div unit
        r == num_tiles % unit
        q_mirror == e.mirror /\ (q > 1)
    IN IF r = 0
       THEN IF q = 1
            THEN TilePatternElement(e.info, mirror, Xor(flip, e.flip), mult)
            ELSE IF mult = 1
            THEN IF flip THEN get_reverse(e, q)
                 ELSE TilePatternElement(e.info, q_mirror, e.flip, q)
            ELSE IF q_mirror = mirror
            THEN LET flip0 == IF mirror /\ flip THEN Xor(e.flip, Odd(q))
                              ELSE Xor(e.flip, flip)
                 IN TilePatternElement(e.info, mirror, flip0, q * mult)
            ELSE IF mirror \/ Odd(q)
            THEN LET ele_inner == TilePatternElement(e.info, q_mirror, e.flip, q)
                 IN TilePatternElement(InfoPattern(<<ele_inner>>), mirror, flip, mult)
            ELSE TilePatternElement(e.info, TRUE, e.flip, q * mult)
       ELSE LET l0 == IF q > 0
                      THEN <<TilePatternElement(e.info, q_mirror, e.flip, q)>>
                      ELSE <<>>
                flip_last == get_flip_unit(e, q)
                ele_list == P_append_sub_pattern(e.info.pat, l0, r, flip_last)
            IN TilePatternElement(InfoPattern(ele_list), mirror, flip, mult)

E_get_sub_pattern_element(e, num_tiles, mult, mirror, flip, start_idx0) ==
    LET start_idx == start_idx0 % E_num_tiles_unit(e)
        num0 == E_num_tiles_unit(e) - start_idx
    IN IF start_idx = 0
       THEN E_get_sub_pattern_element_helper(e, num_tiles, mult, mirror, flip)
       ELSE IF num_tiles <= num0
       THEN P_get_sub_pattern_element(e.info.pat, num_tiles, mult, mirror, flip, start_idx)
       ELSE LET ele_list ==
                  <<P_get_sub_pattern_element(e.info.pat, num0, 1, FALSE, FALSE, start_idx),
                    E_get_sub_pattern_element_helper(e, num_tiles - num0, 1, FALSE, FALSE)>>
            IN TilePatternElement(InfoPattern(ele_list), mirror, flip, mult)

\* the for loop of TilePattern.get_sub_pattern_element; cur_idx is 0-based
P_get_sub_loop(p, ele_list, num_tiles, cur_idx) ==
    IF cur_idx >= Len(p) THEN ele_list
    ELSE LET obj == p[cur_idx + 1]
             cur_num_tot == E_num_tiles(obj)
         IN IF cur_num_tot >= num_tiles
            THEN Append(ele_list,
                        E_get_sub_pattern_element(obj, num_tiles, 1, FALSE, FALSE, 0))
            ELSE P_get_sub_loop(p,
                     Append(ele_list,
                            E_get_sub_pattern_element(obj, cur_num_tot, 1, FALSE, FALSE, 0)),
                     num_tiles - cur_num_tot, cur_idx + 1)

P_get_sub_pattern_element(p, num_tiles, mult, mirror, flip, start_idx0) ==
    LET list_idx == P_get_element_idx(p, start_idx0)
        obj == p[list_idx + 1]
        start_idx == start_idx0 - P_ntile_list(p, list_idx)
        obj_num == E_num_tiles(obj) - start_idx
    IN IF obj_num >= num_tiles
       THEN E_get_sub_pattern_element(obj, num_tiles, mult, mirror, flip, start_idx)
       ELSE LET l0 == <<E_get_sub_pattern_element(obj, obj_num, 1, FALSE, FALSE, start_idx)>>
                ele_list == P_get_sub_loop(p, l0, num_tiles - obj_num, list_idx + 1)
            IN TilePatternElement(InfoPattern(ele_list), mirror, flip, mult)

\* ------------------------------------------------------------------------
\* MOSUsedArray (mos/util.py).  A used array is the record
\*   [element, intvs, num_tiles, end_flags, num_cols]
\* intvs[r + 1] is the PyDisjointIntervals of flat row r: a set of
\* [start, stop, val] with val = <<bottom info, top info>>.
\* end_flags maps <<flat_row, col>> to a MOSEdgeInfo ("None" is Python's None).
\* ------------------------------------------------------------------------
EmptyMap == [k \in {} |-> "None"]

UA_new(element) ==
    [element |-> element,
     intvs |-> [i \in 1..tile_num_rows(E_get_tile_pinfo(element, 0)) |-> {}],
     num_tiles |-> 1,
     end_flags |-> EmptyMap,
     num_cols |-> 0]

num_flat_rows(u) == Len(u.intvs)

\* col_idx - flip_lr * seg, col_idx + (1 - flip_lr) * seg
get_interval(col_idx, seg, flip_lr) ==
    IF flip_lr THEN <<col_idx - seg, col_idx>> ELSE <<col_idx, col_idx + seg>>

Overlaps(iv, intv) == iv.start < intv[2] /\ intv[1] < iv.stop

\* PyDisjointIntervals.add(intv, val=val, merge=False, abut=True), without the
\* overlap test: the interval is stored whatever the row holds
DisjointAdd_NoCheck(S, intv, val) ==
    [ok |-> TRUE, set |-> S \cup {[start |-> intv[1], stop |-> intv[2], val |-> val]}]

\* PyDisjointIntervals.add(intv, val=val, merge=False, abut=True): refuses an
\* interval overlapping a stored one (touching end to start is allowed)
DisjointAdd(S, intv, val) ==
    IF \E iv \in S : Overlaps(iv, intv)
    THEN [ok |-> FALSE, set |-> S]
    ELSE [ok |-> TRUE, set |-> S \cup {[start |-> intv[1], stop |-> intv[2], val |-> val]}]

\* variant: the recorded edge is always written as the left one
add_edge_info_CurLeft(st, key, info, is_right, use_abut) ==
    LET cur_edge == IF key \in DOMAIN st.ef THEN st.ef[key] ELSE "None"
        popped == [k \in (DOMAIN st.ef) \ {key} |-> st.ef[k]]
    IN IF cur_edge = "None"
       THEN [ef |-> [k \in (DOMAIN st.ef) \cup {key} |->
                        IF k = key THEN info ELSE st.ef[k]],
             abut |-> st.abut]
       ELSE [ef |-> popped, abut |-> Append(st.abut, <<key[1], key[2], cur_edge, info>>)]

\* variant: the recorded edge stays in the dictionary when a neighbour arrives
add_edge_info_NoPop(st, key, info, is_right, use_abut) ==
    LET cur_edge == IF key \in DOMAIN st.ef THEN st.ef[key] ELSE "None"
    IN IF cur_edge = "None"
       THEN [ef |-> [k \in (DOMAIN st.ef) \cup {key} |->
                        IF k = key THEN info ELSE st.ef[k]],
             abut |-> st.abut]
       ELSE [ef |-> st.ef,
             abut |-> Append(st.abut,
                             IF is_right THEN <<key[1], key[2], cur_edge, info>>
                             ELSE <<key[1], key[2], info, cur_edge>>)]

\* MOSUsedArray._add_edge_info; st = [ef, abut]; use_abut = (abut_list is not None)
add_edge_info(st, key, info, is_right, use_abut) ==
    LET cur_edge == IF key \in DOMAIN st.ef THEN st.ef[key] ELSE "None"
        popped == [k \in (DOMAIN st.ef) \ {key} |-> st.ef[k]]
    IN IF cur_edge = "None"
       THEN [ef |-> [k \in (DOMAIN st.ef) \cup {key} |->
                        IF k = key THEN info ELSE st.ef[k]],
             abut |-> st.abut]
       ELSE IF use_abut /\ info # "None"
            THEN [ef |-> popped,
                  abut |-> Append(st.abut,
                                  IF is_right THEN <<key[1], key[2], cur_edge, info>>
                                  ELSE <<key[1], key[2], info, cur_edge>>)]
            ELSE [ef |-> popped, abut |-> st.abut]

\* Python list indexing self._intvs[flat_row_idx]: negative indices wrap
ListIndexOk(u, flat_row_idx) ==
    -num_flat_rows(u) <= flat_row_idx /\ flat_row_idx < num_flat_rows(u)
ListIndex(u, flat_row_idx) ==
    IF flat_row_idx < 0 THEN flat_row_idx + num_flat_rows(u) + 1 ELSE flat_row_idx + 1

\* add_mos_raw with the edge infos and num_cols recorded before the overlap test
add_mos_raw_EdgeFirst(u, abut, flat_row_idx, flip_tile, col_idx, seg, flip_lr, flip_ud, left, right, top, bottom, use_abut) ==
    LET intv == get_interval(col_idx, seg, flip_lr)
        val == IF Xor(flip_tile, flip_ud) THEN <<top, bottom>> ELSE <<bottom, top>>
    IN IF ~ListIndexOk(u, flat_row_idx)
       THEN [u |-> u, abut |-> abut, raised |-> TRUE]
       ELSE
       LET i == ListIndex(u, flat_row_idx)
           ans == DisjointAdd(u.intvs[i], intv, val)
           st0 == [ef |-> u.end_flags, abut |-> abut]
           st1 == add_edge_info(st0, <<flat_row_idx, intv[1]>>,
                                IF flip_lr THEN right ELSE left, TRUE, use_abut)
           st2 == add_edge_info(st1, <<flat_row_idx, intv[2]>>,
                                IF flip_lr THEN left ELSE right, FALSE, use_abut)
       IN [u |-> [u EXCEPT !.intvs[i] = ans.set,
                           !.end_flags = st2.ef,
                           !.num_cols = Max(u.num_cols, intv[2])],
           abut |-> st2.abut, raised |-> ~ans.ok]

\* MOSUsedArray.add_mos_raw; returns the array, the caller's abut_list and whether
\* the call raised
add_mos_raw(u, abut, flat_row_idx, flip_tile, col_idx, seg, flip_lr, flip_ud, left, right, top, bottom, use_abut) ==
    LET intv == get_interval(col_idx, seg, flip_lr)
        val == IF Xor(flip_tile, flip_ud) THEN <<top, bottom>> ELSE <<bottom, top>>
    IN IF ~ListIndexOk(u, flat_row_idx)
       THEN [u |-> u, abut |-> abut, raised |-> TRUE]
       ELSE
       LET i == ListIndex(u, flat_row_idx)
           ans == DisjointAdd(u.intvs[i], intv, val)
       IN IF ~ans.ok
          THEN [u |-> u, abut |-> abut, raised |-> TRUE]
          ELSE
          LET st0 == [ef |-> u.end_flags, abut |-> abut]
              st1 == add_edge_info(st0, <<flat_row_idx, intv[1]>>,
                                   IF flip_lr THEN right ELSE left, TRUE, use_abut)
              st2 == add_edge_info(st1, <<flat_row_idx, intv[2]>>,
                                   IF flip_lr THEN left ELSE right, FALSE, use_abut)
          IN [u |-> [u EXCEPT !.intvs[i] = ans.set,
                              !.end_flags = st2.ef,
                              !.num_cols = Max(u.num_cols, intv[2])],
              abut |-> st2.abut, raised |-> FALSE]

\* set_num_tiles that accepts any value
set_num_tiles_NoCheck(u, val) ==
    [u |-> [u EXCEPT !.num_tiles = val], raised |-> FALSE]

\* MOSUsedArray.set_num_tiles
set_num_tiles(u, val) ==
    IF u.num_tiles > val THEN [u |-> u, raised |-> TRUE]
    ELSE IF val > u.num_tiles
    THEN LET inc == E_num_tiles_to_rows(u.element, val) - num_flat_rows(u)
         IN [u |-> [u EXCEPT !.num_tiles = val,
                             !.intvs = u.intvs \o [i \in 1..Max(inc, 0) |-> {}]],
             raised |-> FALSE]
    ELSE [u |-> u, raised |-> FALSE]

\* num_cols setter that stores the value without the test
set_num_cols_NoCheck(u, val) ==
    [u |-> [u EXCEPT !.num_cols = val], raised |-> FALSE]

\* MOSUsedArray.num_cols (setter)
set_num_cols(u, val) ==
    IF u.num_cols > val THEN [u |-> u, raised |-> TRUE]
    ELSE [u |-> [u EXCEPT !.num_cols = Max(u.num_cols, val)], raised |-> FALSE]

\* MOSUsedArray.add_mos
add_mos(u, abut, tile_idx, row_idx, col_idx, seg, flip_lr, flip_ud, left, right, top, bottom, use_abut) ==
    LET fr == E_get_flat_row_idx_and_flip(u.element, tile_idx, row_idx)
        u1 == IF tile_idx >= u.num_tiles THEN set_num_tiles(u, tile_idx + 1).u ELSE u
    IN add_mos_raw(u1, abut, fr.row, fr.flip, col_idx, seg, flip_lr, flip_ud,
                   left, right, top, bottom, use_abut)

\* the items of one PyDisjointIntervals in increasing column order
RECURSIVE SortedItems(_)
SortedItems(S) ==
    IF S = {} THEN <<>>
    ELSE LET first == CHOOSE iv \in S : \A other \in S : iv.start <= other.start
         IN <<first>> \o SortedItems(S \ {first})

\* MOSUsedArray.info_iter: [start, stop, linfo, rinfo, tinfo, binfo] per item
info_iter(u, flat_row_idx) ==
    LET items == SortedItems(u.intvs[flat_row_idx + 1])
        Get(key) == IF key \in DOMAIN u.end_flags THEN u.end_flags[key] ELSE "None"
    IN [n \in 1..Len(items) |->
          [start |-> items[n].start, stop |-> items[n].stop,
           linfo |-> Get(<<flat_row_idx, items[n].start>>),
           rinfo |-> Get(<<flat_row_idx, items[n].stop>>),
           tinfo |-> items[n].val[2], binfo |-> items[n].val[1]]]

\* MOSUsedArray.intv_iter
intv_iter(u, flat_row_idx) ==
    {<<iv.start, iv.stop>> : iv \in u.intvs[ListIndex(u, flat_row_idx)]}

\* the add_mos_raw calls of add_tiles' nested loops, in order
RECURSIVE add_tiles_calls(_, _, _, _, _, _, _)
add_tiles_calls(u, used_arr, row_idx_offset, scale, col_idx, flip_lr, inst_flat_row_idx) ==
    IF inst_flat_row_idx >= num_flat_rows(used_arr) THEN <<>>
    ELSE LET my_flat_row_idx == row_idx_offset + scale * inst_flat_row_idx
             cur_tile == E_flat_row_to_tile_row(u.element, my_flat_row_idx)[1]
             cur_flip_tile == E_get_tile_info(u.element, cur_tile).flip
             items == info_iter(used_arr, inst_flat_row_idx)
         IN [n \in 1..Len(items) |->
               [row |-> my_flat_row_idx, flip_tile |-> cur_flip_tile,
                col |-> col_idx + (IF flip_lr THEN -1 ELSE 1) * items[n].start,
                seg |-> items[n].stop - items[n].start,
                linfo |-> items[n].linfo, rinfo |-> items[n].rinfo,
                tinfo |-> items[n].tinfo, binfo |-> items[n].binfo]]
            \o add_tiles_calls(u, used_arr, row_idx_offset, scale, col_idx, flip_lr,
                               inst_flat_row_idx + 1)

\* runs the calls one after the other; the first one that raises ends the loop
RECURSIVE add_tiles_run(_, _, _, _, _, _)
add_tiles_run(u, abut, calls, n, flip_lr, flip_ud) ==
    IF n > Len(calls) THEN [u |-> u, abut |-> abut, raised |-> FALSE]
    ELSE LET c == calls[n]
             r == add_mos_raw(u, abut, c.row, c.flip_tile, c.col, c.seg, flip_lr, flip_ud,
                              c.linfo, c.rinfo, c.tinfo, c.binfo, TRUE)
         IN IF r.raised THEN r
            ELSE add_tiles_run(r.u, r.abut, calls, n + 1, flip_lr, flip_ud)

\* MOSUsedArray.add_tiles
add_tiles(u, abut, tile_idx, col_idx, used_arr, flip_lr) ==
    LET flip_base_tile == E_get_tile_info(u.element, tile_idx).flip
        inst_tile0_flipped == E_get_tile_info(used_arr.element, 0).flip
        flip_ud == Xor(flip_base_tile, inst_tile0_flipped)
        inst_num_rows == num_flat_rows(used_arr)
        row_idx_offset == IF flip_ud THEN E_num_tiles_to_rows(u.element, tile_idx + 1) - 1
                          ELSE E_num_tiles_to_rows(u.element, tile_idx)
        max_num_tiles == IF flip_ud THEN tile_idx + 1 ELSE tile_idx + used_arr.num_tiles
        tile_sign == IF flip_ud THEN -1 ELSE 1
        compatible == \A inst_tile_idx \in 0..(used_arr.num_tiles - 1) :
                         E_get_tile_pinfo(used_arr.element, inst_tile_idx)
                           = E_get_tile_pinfo(u.element, tile_idx + tile_sign * inst_tile_idx)
    IN IF flip_ud /\ row_idx_offset - inst_num_rows + 1 < 0
       THEN [u |-> u, abut |-> abut, raised |-> TRUE]
       ELSE IF ~compatible
       THEN [u |-> u, abut |-> abut, raised |-> TRUE]
       ELSE LET u1 == IF max_num_tiles > u.num_tiles THEN set_num_tiles(u, max_num_tiles).u
                      ELSE u
                calls == add_tiles_calls(u1, used_arr, row_idx_offset, tile_sign, col_idx,
                                         flip_lr, 0)
            IN add_tiles_run(u1, abut, calls, 1, flip_lr, flip_ud)

\* ------------------------------------------------------------------------
\* Persisted layout: TileInfoTable.save / TileInfoTable.load
\* ------------------------------------------------------------------------
\* A HalfInt is held as its doubled value.  HalfInt.value is the number written to
\* YAML (an int, or a float ending in .5); HalfInt.convert reads it back.
HalfInt_value(dbl) == [whole |-> dbl \div 2, half |-> dbl % 2 = 1]
HalfInt_convert(num) == 2 * num.whole + (IF num.half THEN 1 ELSE 0)

\* a WireLookup is its _data: (name, idx) -> (track, width)
WireLookup_to_dict(wl) ==
    [key \in DOMAIN wl |-> <<HalfInt_value(wl[key][1]), wl[key][2]>>]
WireLookup_from_dict(table) ==
    [key \in DOMAIN table |-> <<HalfInt_convert(table[key][1]), table[key][2]>>]

RowExtInfo_to_dict(x) == [row_type |-> x.row_type, threshold |-> x.threshold, info |-> x.info]
RowExtInfo_from_dict(t) == [row_type |-> t.row_type, threshold |-> t.threshold, info |-> t.info]

\* the *_conn_y pairs other than g_conn_y are written and read exactly like it
MOSRowInfo_to_dict(r) ==
    [lch |-> r.lch, width |-> r.width, sub_width |-> r.sub_width,
     threshold |-> r.threshold, height |-> r.height, flip |-> r.flip,
     g_conn_y |-> r.g_conn_y, guard_ring |-> r.guard_ring, double_gate |-> r.double_gate,
     row_type |-> r.row_type,
     top_ext_info |-> RowExtInfo_to_dict(r.top_ext_info),
     bot_ext_info |-> RowExtInfo_to_dict(r.bot_ext_info),
     info |-> r.info]

MOSRowInfo_from_dict(table) ==
    [lch |-> table.lch, width |-> table.width, sub_width |-> table.sub_width,
     row_type |-> table.row_type, threshold |-> table.threshold, height |-> table.height,
     flip |-> table.flip,
     top_ext_info |-> RowExtInfo_from_dict(table.top_ext_info),
     bot_ext_info |-> RowExtInfo_from_dict(table.bot_ext_info),
     info |-> table.info, g_conn_y |-> table.g_conn_y,
     guard_ring |-> IF "guard_ring" \in DOMAIN table THEN table.guard_ring ELSE FALSE,
     guard_ring_col |-> IF "guard_ring_col" \in DOMAIN table THEN table.guard_ring_col
                        ELSE FALSE,
     double_gate |-> IF "double_gate" \in DOMAIN table THEN table.double_gate ELSE FALSE]

RowPlaceInfo_to_dict(rp) ==
    [row_info |-> MOSRowInfo_to_dict(rp.row_info),
     bot_wires |-> WireLookup_to_dict(rp.bot_wires),
     top_wires |-> WireLookup_to_dict(rp.top_wires),
     yb |-> rp.yb, yt |-> rp.yt, yb_blk |-> rp.yb_blk, yt_blk |-> rp.yt_blk,
     y_conn |-> rp.y_conn, mid_wires |-> WireLookup_to_dict(rp.mid_wires)]

RowPlaceInfo_from_dict(table) ==
    [row_info |-> MOSRowInfo_from_dict(table.row_info),
     bot_wires |-> WireLookup_from_dict(table.bot_wires),
     top_wires |-> WireLookup_from_dict(table.top_wires),
     yb |-> table.yb, yt |-> table.yt, yb_blk |-> table.yb_blk, yt_blk |-> table.yt_blk,
     y_conn |-> table.y_conn, mid_wires |-> WireLookup_from_dict(table.mid_wires)]

\* the fields a RowPlaceInfo is compared and hashed on: bot_wires and top_wires
\* are declared with compare=False
RowPlaceInfo_key(rp) ==
    <<rp.row_info, rp.yb, rp.yt, rp.yb_blk, rp.yt_blk, rp.y_conn, rp.mid_wires>>

\* MOSArrayPlaceInfo: the fields it is compared and hashed on
MOSArrayPlaceInfo(lch, tr_widths, tr_spaces, top_layer, conn_layer, half_space, arr_options) ==
    [lch |-> lch, tr_manager |-> [tr_widths |-> tr_widths, tr_spaces |-> tr_spaces,
                                  half_space |-> half_space],
     conn_layer |-> conn_layer, top_layer |-> top_layer, half_space |-> half_space,
     arr_options |-> arr_options]

save_arr_info(ainfo) ==
    [lch |-> ainfo.lch, tr_widths |-> ainfo.tr_manager.tr_widths,
     tr_spaces |-> [k \in DOMAIN ainfo.tr_manager.tr_spaces |->
                       HalfInt_value(ainfo.tr_manager.tr_spaces[k])],
     top_layer |-> ainfo.top_layer, conn_layer |-> ainfo.conn_layer,
     half_space |-> ainfo.half_space, arr_options |-> ainfo.arr_options]

\* TrackManager converts the spaces it is given to HalfInt
make_array_info(val) ==
    MOSArrayPlaceInfo(val.lch, val.tr_widths,
                      [k \in DOMAIN val.tr_spaces |-> HalfInt_convert(val.tr_spaces[k])],
                      val.top_layer, val.conn_layer, val.half_space, val.arr_options)

MOSBasePlaceInfo(name, arr_info, rp_list, bot_mirror, top_mirror, options, priority, wire_lookup) ==
    [name |-> IF name = "" THEN "unnamed" ELSE name, arr_info |-> arr_info,
     pinfo_list |-> rp_list, options |-> options, bot_mirror |-> bot_mirror,
     top_mirror |-> top_mirror, priority |-> priority, wire_lookup |-> wire_lookup]

\* the track of a wire on a higher layer; KeyError is raised when the tile has
\* no lookup for the layer or the lookup has no such wire
get_hm_track_info(pinfo, hm_layer, wire_key) ==
    IF hm_layer \in DOMAIN pinfo.wire_lookup /\ wire_key \in DOMAIN pinfo.wire_lookup[hm_layer]
    THEN [raised |-> FALSE, info |-> pinfo.wire_lookup[hm_layer][wire_key]]
    ELSE [raised |-> TRUE, info |-> <<>>]

RowKeys(p) == [i \in 1..Len(p.pinfo_list) |-> RowPlaceInfo_key(p.pinfo_list[i])]

\* MOSBasePlaceInfo.__eq__
MOSBasePlaceInfo_eq(a, b) ==
    /\ a.name = b.name
    /\ a.arr_info = b.arr_info
    /\ RowKeys(a) = RowKeys(b)
    /\ a.options = b.options
    /\ a.wire_lookup = b.wire_lookup

\* what MOSBasePlaceInfo.__init__ folds into the hash
MOSBasePlaceInfo_hash(a) == <<a.arr_info, a.name, RowKeys(a), a.options>>

save_place_info(pinfo) ==
    [rp_list |-> [i \in 1..Len(pinfo.pinfo_list) |-> RowPlaceInfo_to_dict(pinfo.pinfo_list[i])],
     bot_mirror |-> pinfo.bot_mirror, top_mirror |-> pinfo.top_mirror,
     options |-> pinfo.options, priority |-> pinfo.priority]

\* specs.yaml, which names the tiles, is the file the table was made from
TileInfoTable_save(table) ==
    [names |-> DOMAIN table.pinfo_dict,
     arr_info |-> save_arr_info(table.arr_info),
     tiles |-> [n \in DOMAIN table.pinfo_dict |-> save_place_info(table.pinfo_dict[n])]]

EmptyLookup == [k \in {} |-> 0]

TileInfoTable_load(disk) ==
    LET ainfo == make_array_info(disk.arr_info)
    IN [arr_info |-> ainfo,
        pinfo_dict |->
            [n \in disk.names |->
                LET y == disk.tiles[n]
                    rp_list == [i \in 1..Len(y.rp_list) |-> RowPlaceInfo_from_dict(y.rp_list[i])]
                IN MOSBasePlaceInfo(n, ainfo, rp_list, y.bot_mirror, y.top_mirror,
                                    y.options, 0, EmptyLookup)]]

\* ------------------------------------------------------------------------
\* Wire graphs: routing grid and TrackManager oracles
\* ------------------------------------------------------------------------
\* Track indices are HalfInts held as doubled values; coordinates are integers.
\* Track t has its centre at pitch * t + pitch / 2, so a doubled index h lies at
\* HalfPitch * (h + 1).
HalfPitch == 2
COORD_MAX == 1000000
COORD_MIN == -1000000
NoIdx == -1000

CeilDiv(a, b) == -((-a) \div b)

track_to_coord(htr) == HalfPitch * (htr + 1)

\* grid.coord_to_track: mode "NONE" expects a coordinate on the half-track grid
coord_to_track(coord, mode) ==
    CASE mode = "LESS_EQ" -> (coord \div HalfPitch) - 1
      [] mode = "NEAREST" -> ((2 * coord + HalfPitch) \div (2 * HalfPitch)) - 1
      [] OTHER -> (coord \div HalfPitch) - 1

\* a wire of width tr_w reaches tr_w above and below its centre
get_wire_bounds(htr, tr_w) == <<track_to_coord(htr) - tr_w, track_to_coord(htr) + tr_w>>

\* grid.find_next_track: the nearest half track whose wire lies wholly at or above
\* (GREATER_EQ) or at or below (LESS_EQ) the coordinate
find_next_track(coord, tr_w, mode) ==
    IF mode = "GREATER_EQ" THEN CeilDiv(coord + tr_w, HalfPitch) - 1
    ELSE ((coord - tr_w) \div HalfPitch) - 1

get_middle_track(tr1, tr2) == (tr1 + tr2) \div 2

WireTypes == {"sig", "sup"}
get_width(wtype) == IF wtype = "sup" THEN 2 ELSE 1

\* the track manager's spacing table: the doubled separation it was configured
\* to keep between wires of two different types
tr_spaces(t1, t2) == IF t1 # t2 THEN SigSupSpace ELSE 0

\* tr_manager.get_sep: doubled separation; whole tracks when half_space is False
get_sep(t1, t2, half_space) ==
    LET raw == Max(get_width(t1) + get_width(t2) + 1, tr_spaces(t1, t2))
    IN IF half_space THEN raw ELSE 2 * CeilDiv(raw, 2)

get_next_track(idx, t1, t2, half_space, up) ==
    IF up THEN idx + get_sep(t1, t2, half_space) ELSE idx - get_sep(t1, t2, half_space)

\* ------------------------------------------------------------------------
\* WireGraphBuilder
\* ------------------------------------------------------------------------
WireNames == {"a", "b", "c"}
\* a wire registered without a wire type takes its base name as type
WireTypeOf(name) == IF name = "b" THEN "sup" ELSE "sig"

NewBuilder ==
    [nodes |-> <<>>, edges |-> {}, attrs |-> [n \in {} |-> 0], align_specs |-> <<>>,
     has_center |-> FALSE, lower |-> COORD_MAX, upper |-> COORD_MIN]

NodeSet(g) == {g.nodes[i] : i \in 1..Len(g.nodes)}
predecessors(g, v) == SelectSeq(g.nodes, LAMBDA n : <<n, v>> \in g.edges)
successors(g, v) == SelectSeq(g.nodes, LAMBDA n : <<v, n>> \in g.edges)
in_degree(g, v) == Cardinality({e \in g.edges : e[2] = v})
out_degree(g, v) == Cardinality({e \in g.edges : e[1] = v})

_is_even_symmetric(attrs, wlist) ==
    \A i \in 1..(Len(wlist) \div 2) :
        attrs[wlist[i]].wtype = attrs[wlist[Len(wlist) + 1 - i]].wtype

register_wires(b, wire_list, alignment) ==
    LET first(n) == CHOOSE i \in 1..Len(wire_list) : wire_list[i] = n /\
                        \A j \in 1..(i - 1) : wire_list[j] # n
        new_nodes == SelectSeq([i \in 1..Len(wire_list) |->
                                   IF wire_list[i] \notin NodeSet(b) /\ first(wire_list[i]) = i
                                   THEN wire_list[i] ELSE "-"], LAMBDA n : n # "-")
        nodes == b.nodes \o new_nodes
        attrs0 == [n \in NodeSet(b) \cup {wire_list[i] : i \in 1..Len(wire_list)} |->
                      IF n \in NodeSet(b) THEN b.attrs[n]
                      ELSE [idx |-> NoIdx, wtype |-> WireTypeOf(n), shared |-> FALSE,
                            harden |-> FALSE, even_spaces |-> {}, width |-> 0]]
        num_wires == Len(wire_list)
        nhalf == num_wires \div 2
        attrs == IF alignment = "CENTER_COMPACT" /\ num_wires % 2 = 0
                    /\ _is_even_symmetric(attrs0, wire_list)
                 THEN [attrs0 EXCEPT ![wire_list[nhalf + 1]].even_spaces =
                                          @ \cup {wire_list[nhalf]}]
                 ELSE attrs0
    IN [b EXCEPT !.nodes = nodes,
                 !.edges = @ \cup {<<wire_list[i], wire_list[i + 1]>> :
                                      i \in 1..(Len(wire_list) - 1)},
                 !.attrs = attrs,
                 !.align_specs = Append(@, <<wire_list, alignment>>),
                 !.has_center = @ \/ alignment = "CENTER_COMPACT"]

\* register_shared_wire refuses a wire that is unknown or not on the boundary
SharedOk(b, name) ==
    /\ name \in NodeSet(b)
    /\ (in_degree(b, name) = 0) # (out_degree(b, name) = 0)

register_shared_wire(b, name) == [b EXCEPT !.attrs[name].shared = TRUE]

get_graph(b) ==
    [b EXCEPT !.attrs = [n \in DOMAIN b.attrs |->
                            [b.attrs[n] EXCEPT !.width = get_width(b.attrs[n].wtype)]]]

RECURSIVE register_all(_, _, _)
register_all(b, wire_grps, i) ==
    IF i > Len(wire_grps) THEN b
    ELSE register_all(register_wires(b, wire_grps[i][1], wire_grps[i][2]), wire_grps, i + 1)

RECURSIVE share_all(_, _)
share_all(b, shared_wires) ==
    IF shared_wires = {} THEN b
    ELSE LET n == CHOOSE x \in shared_wires : TRUE
         IN share_all(register_shared_wire(b, n), shared_wires \ {n})

make_wire_graph(wire_grps, shared_wires) ==
    get_graph(share_all(register_all(NewBuilder, wire_grps, 1), shared_wires))

\* ------------------------------------------------------------------------
\* WireGraph.place_compact
\* ------------------------------------------------------------------------
RECURSIVE Closure(_, _)
Closure(E, k) ==
    IF k = 0 THEN E
    ELSE LET C == Closure(E, k - 1)
         IN C \cup {<<p[1][1], p[2][2]>> : p \in {q \in C \X C : q[1][2] = q[2][1]}}

\* nodes topological_sort never yields: those on a dependency loop or below one
Unsorted(g) ==
    LET C == Closure(g.edges, Len(g.nodes))
    IN {n \in NodeSet(g) : \E m \in NodeSet(g) : <<m, m>> \in C /\ (m = n \/ <<m, n>> \in C)}

\* the orders topological_sort may yield the nodes in
TopoOrders(g) ==
    {o \in [1..Len(g.nodes) -> NodeSet(g)] :
        /\ \A i, j \in 1..Len(g.nodes) : i # j => o[i] # o[j]
        /\ \A i, j \in 1..Len(g.nodes) : <<o[i], o[j]>> \in g.edges => i < j}

\* variant: the spacing to a parent is never rounded to whole tracks
RECURSIVE place_idx_NoEven(_, _, _, _, _)
place_idx_NoEven(g, key, lower, bot_mirror, shift) ==
    LET cur_attrs == g.attrs[key]
        cur_idx == find_next_track(lower, cur_attrs.width, "GREATER_EQ")
    IN IF in_degree(g, key) = 0
       THEN IF cur_attrs.shared THEN coord_to_track(lower, "NONE")
            ELSE 2 * shift +
                 (IF bot_mirror
                  THEN Max(cur_idx, get_sep(cur_attrs.wtype, cur_attrs.wtype, FALSE) \div 2)
                  ELSE cur_idx)
       ELSE LET mins == {get_next_track(place_idx_NoEven(g, parent, lower, bot_mirror, shift),
                                        g.attrs[parent].wtype, cur_attrs.wtype, TRUE, TRUE) :
                         parent \in {e[1] : e \in {x \in g.edges : x[2] = key}}}
            IN CHOOSE m \in mins \cup {cur_idx} : \A x \in mins \cup {cur_idx} : x <= m

\* the track the placement loop assigns to a wire
RECURSIVE place_idx(_, _, _, _, _)
place_idx(g, key, lower, bot_mirror, shift) ==
    LET cur_attrs == g.attrs[key]
        cur_idx == find_next_track(lower, cur_attrs.width, "GREATER_EQ")
    IN IF in_degree(g, key) = 0
       THEN IF cur_attrs.shared THEN coord_to_track(lower, "NONE")
            ELSE 2 * shift +
                 (IF bot_mirror
                  THEN Max(cur_idx, get_sep(cur_attrs.wtype, cur_attrs.wtype, FALSE) \div 2)
                  ELSE cur_idx)
       ELSE LET mins == {get_next_track(place_idx(g, parent, lower, bot_mirror, shift),
                                        g.attrs[parent].wtype, cur_attrs.wtype,
                                        parent \notin cur_attrs.even_spaces, TRUE) :
                         parent \in {e[1] : e \in {x \in g.edges : x[2] = key}}}
            IN CHOOSE m \in mins \cup {cur_idx} : \A x \in mins \cup {cur_idx} : x <= m

\* the bottom-edge mirror check over the sources in the order they were yielded
MirrorViolation(attrs, src_list) ==
    \E ni, nj \in 1..Len(src_list) :
        /\ ni < nj
        /\ ~attrs[src_list[ni]].shared
        /\ ~attrs[src_list[nj]].shared
        /\ LET idx_i == attrs[src_list[ni]].idx
               idx_j == attrs[src_list[ni]].idx
           IN idx_i + idx_j + 2 < get_sep(attrs[src_list[ni]].wtype,
                                          attrs[src_list[nj]].wtype, TRUE)

RECURSIVE mirror_bound(_, _, _, _, _)
mirror_bound(attrs, sink_list, sink_idx, comp_sink_idx, bnd_c) ==
    IF comp_sink_idx > Len(sink_list) THEN bnd_c
    ELSE LET comp_attrs == attrs[sink_list[comp_sink_idx]]
             cur_attrs == attrs[sink_list[sink_idx]]
             ntr_dbl == get_sep(cur_attrs.wtype, comp_attrs.wtype, TRUE)
                           + cur_attrs.idx + comp_attrs.idx
         IN mirror_bound(attrs, sink_list, sink_idx, comp_sink_idx + 1,
                         IF comp_attrs.shared THEN bnd_c
                         ELSE Max(bnd_c, CeilDiv(ntr_dbl * HalfPitch, 2)))

\* the loop computing the upper coordinate; returns <<upper, upper_is_shared>>
RECURSIVE upper_loop(_, _, _, _, _, _)
upper_loop(attrs, sink_list, sink_idx, top_mirror, upper, upper_is_shared) ==
    IF sink_idx > Len(sink_list) THEN <<upper, upper_is_shared>>
    ELSE LET cur_attrs == attrs[sink_list[sink_idx]]
             mid_c == track_to_coord(cur_attrs.idx)
             bnd0 == get_wire_bounds(cur_attrs.idx, cur_attrs.width)[2]
             bnd_c == IF top_mirror
                      THEN mirror_bound(attrs, sink_list, sink_idx, sink_idx, bnd0)
                      ELSE bnd0
         IN IF cur_attrs.shared
            THEN IF mid_c >= upper
                 THEN upper_loop(attrs, sink_list, sink_idx + 1, top_mirror, mid_c, TRUE)
                 ELSE upper_loop(attrs, sink_list, sink_idx + 1, top_mirror, upper,
                                 upper_is_shared)
            ELSE IF bnd_c > upper
                 THEN upper_loop(attrs, sink_list, sink_idx + 1, top_mirror, bnd_c, FALSE)
                 ELSE upper_loop(attrs, sink_list, sink_idx + 1, top_mirror, upper,
                                 upper_is_shared)

\* variant: a dependency loop is never reported
loop_detected_Never(g) == FALSE

\* topological_sort raises NetworkXUnfeasible
loop_detected(g) == Unsorted(g) # {}

\* order: the nodes as topological_sort yields them (any order when it fails)
place_compact(g, lower, bot_mirror, top_mirror, shift, order) ==
    LET bad == Unsorted(g)
        attrs1 == [n \in DOMAIN g.attrs |->
                      IF n \in bad THEN g.attrs[n]
                      ELSE [g.attrs[n] EXCEPT
                               !.idx = place_idx(g, n, lower, bot_mirror, shift)]]
        src_list == SelectSeq(order, LAMBDA n : in_degree(g, n) = 0)
        sink_list == SelectSeq(order, LAMBDA n : out_degree(g, n) = 0)
        up == upper_loop(attrs1, sink_list, 1, top_mirror, lower, FALSE)
        upper == IF up[2] THEN up[1]
                 ELSE track_to_coord(find_next_track(up[1], 1, "GREATER_EQ"))
        tr_last == coord_to_track(upper, "NONE")
        attrs2 == [n \in DOMAIN attrs1 |->
                      IF attrs1[n].shared /\ out_degree(g, n) = 0
                      THEN [attrs1[n] EXCEPT !.idx = tr_last] ELSE attrs1[n]]
    IN IF loop_detected(g) \/ (bot_mirror /\ MirrorViolation(attrs1, src_list))
       THEN [g |-> [g EXCEPT !.attrs = attrs1], raised |-> TRUE]
       ELSE [g |-> [g EXCEPT !.attrs = attrs2, !.lower = lower, !.upper = upper],
             raised |-> FALSE]

\* ------------------------------------------------------------------------
\* WireGraph.align_wires
\* ------------------------------------------------------------------------
RECURSIVE _move(_, _, _, _, _, _, _)
RECURSIVE move_neighbours(_, _, _, _, _, _, _, _)

\* the loop of _move over the successors (up) or predecessors of wire;
\* returns the attributes and the track found for wire
move_neighbours(g, attrs, lower, upper, wire, node_iter, up, cur_idx) ==
    IF node_iter = <<>> THEN [attrs |-> attrs, idx |-> cur_idx]
    ELSE LET node == Head(node_iter)
             attrs1 == _move(g, attrs, lower, upper, node, FALSE, up)
             half_space == IF up THEN wire \notin attrs1[node].even_spaces
                           ELSE node \notin attrs1[wire].even_spaces
             next_idx == get_next_track(attrs1[node].idx, attrs1[node].wtype,
                                        attrs1[wire].wtype, half_space, ~up)
         IN move_neighbours(g, attrs1, lower, upper, wire, Tail(node_iter), up,
                            IF up THEN Min(cur_idx, next_idx) ELSE Max(cur_idx, next_idx))

_move(g, attrs, lower, upper, wire, harden, up) ==
    IF attrs[wire].harden THEN attrs
    ELSE IF attrs[wire].shared
    THEN [attrs EXCEPT ![wire].idx = IF out_degree(g, wire) = 0
                                     THEN coord_to_track(upper, "NONE")
                                     ELSE coord_to_track(lower, "NONE"),
                       ![wire].harden = TRUE]
    ELSE LET tr_w == attrs[wire].width
             r == IF up
                  THEN move_neighbours(g, attrs, lower, upper, wire, successors(g, wire), up,
                                       find_next_track(upper, tr_w, "LESS_EQ"))
                  ELSE move_neighbours(g, attrs, lower, upper, wire, predecessors(g, wire),
                                       up, find_next_track(lower, tr_w, "GREATER_EQ"))
         IN [r.attrs EXCEPT ![wire].idx = r.idx, ![wire].harden = harden]

RECURSIVE move_list(_, _, _, _, _, _)
move_list(g, attrs, lower, upper, wire_list, up) ==
    IF wire_list = <<>> THEN attrs
    ELSE move_list(g, _move(g, attrs, lower, upper, Head(wire_list), TRUE, up),
                   lower, upper, Tail(wire_list), up)

Reversed(q) == [i \in 1..Len(q) |-> q[Len(q) + 1 - i]]

\* one pass of the loop over align_specs
align_group(g, attrs, lower, upper, wire_list, alignment) ==
    LET middle_idx == coord_to_track((lower + upper) \div 2, "NEAREST")
        hard_idx_list == SelectSeq([i \in 1..Len(wire_list) |-> i],
                                   LAMBDA i : attrs[wire_list[i]].harden)
        num_hard == Len(hard_idx_list)
    IN CASE alignment = "LOWER_COMPACT" ->
              move_list(g, attrs, lower, upper, wire_list, FALSE)
         [] alignment = "UPPER_COMPACT" ->
              move_list(g, attrs, lower, upper, Reversed(wire_list), TRUE)
         [] OTHER ->
              IF num_hard > 0
              THEN LET center_idx == hard_idx_list[(num_hard \div 2) + 1]
                       below == Reversed(SubSeq(wire_list, 1, center_idx - 1))
                       above == SubSeq(wire_list, center_idx + 1, Len(wire_list))
                   IN move_list(g, move_list(g, attrs, lower, upper, below, TRUE),
                                lower, upper, above, FALSE)
              ELSE LET cur_idx == get_middle_track(attrs[wire_list[1]].idx,
                                                   attrs[wire_list[Len(wire_list)]].idx)
                       delta == middle_idx - cur_idx
                   IN [n \in DOMAIN attrs |->
                          IF \E i \in 1..Len(wire_list) : wire_list[i] = n
                          THEN [attrs[n] EXCEPT !.idx = @ + delta *
                                   Cardinality({i \in 1..Len(wire_list) : wire_list[i] = n}),
                                                !.harden = TRUE]
                          ELSE attrs[n]]

RECURSIVE align_loop(_, _, _, _, _)
align_loop(g, attrs, lower, upper, i) ==
    IF i > Len(g.align_specs) THEN attrs
    ELSE align_loop(g, align_group(g, attrs, lower, upper, g.align_specs[i][1],
                                   g.align_specs[i][2]), lower, upper, i + 1)

align_wires(g, lower, upper) ==
    LET attrs0 == [n \in DOMAIN g.attrs |-> [g.attrs[n] EXCEPT !.harden = FALSE]]
    IN [g EXCEPT !.attrs = align_loop(g, attrs0, lower, upper, 1),
                 !.lower = lower, !.upper = upper]

\* ------------------------------------------------------------------------
\* MOSBase: adding devices by tile and row index
\* ------------------------------------------------------------------------
\* the rows of the modelled tiles start one unit apart: rpinfo.yb_blk
row_yb_blk(pinfo, row_idx) == row_idx

_tile_check(u, size_defined, tile_idx) ==
    IF tile_idx < 0
    THEN IF size_defined
         THEN [raised |-> tile_idx + u.num_tiles < 0, tile_idx |-> tile_idx + u.num_tiles]
         ELSE [raised |-> TRUE, tile_idx |-> tile_idx]
    ELSE [raised |-> FALSE, tile_idx |-> tile_idx]

_row_check(pinfo, row_idx) ==
    IF row_idx < 0
    THEN [raised |-> row_idx + tile_num_rows(pinfo) < 0,
          row_idx |-> row_idx + tile_num_rows(pinfo)]
    ELSE [raised |-> FALSE, row_idx |-> row_idx]

\* y0 of get_mos_row_info for rows that are not flipped in their tile
get_mos_row_info(pinfo, tile_yb, flip_tile, row_idx) ==
    IF flip_tile THEN tile_yb + tile_height(pinfo) - row_yb_blk(pinfo, row_idx)
    ELSE row_yb_blk(pinfo, row_idx) + tile_yb

\* the result of a call that raised before anything was registered
RaisedCall(u) == [raised |-> TRUE, u |-> u, y0 |-> 0]

register_device(u, tile_idx, row_idx, col_idx, seg, flip_lr) ==
    LET ti == E_get_tile_info(u.element, tile_idx)
        r == add_mos(u, <<>>, tile_idx, row_idx, col_idx, seg, flip_lr, FALSE,
                     "L", "R", "T", "B", TRUE)
    IN IF row_idx >= tile_num_rows(ti.pinfo) THEN RaisedCall(u)
       ELSE [raised |-> r.raised, u |-> r.u,
             y0 |-> get_mos_row_info(ti.pinfo, ti.y0, ti.flip, row_idx)]

MOSBase_add_mos(u, size_defined, row_idx, col_idx, seg, tile_idx, flip_lr) ==
    LET tc == _tile_check(u, size_defined, tile_idx)
        pinfo == E_get_tile_pinfo(u.element, tc.tile_idx)
        rc == _row_check(pinfo, row_idx)
    IN IF seg <= 0 \/ tc.raised THEN RaisedCall(u)
       ELSE IF rc.raised \/ rc.row_idx >= tile_num_rows(pinfo) THEN RaisedCall(u)
       ELSE register_device(u, tile_idx, rc.row_idx, col_idx, seg, flip_lr)

MOSBase_add_substrate_contact(u, size_defined, row_idx, col_idx, seg, tile_idx, flip_lr) ==
    LET tc == _tile_check(u, size_defined, tile_idx)
        pinfo == E_get_tile_pinfo(u.element, tc.tile_idx)
        rc == _row_check(pinfo, row_idx)
    IN IF tc.raised THEN RaisedCall(u)
       ELSE IF rc.raised \/ rc.row_idx >= tile_num_rows(pinfo) THEN RaisedCall(u)
       ELSE register_device(u, tc.tile_idx, rc.row_idx, col_idx, seg, flip_lr)

set_mos_size(u, size_defined, num_tiles) ==
    IF size_defined THEN [raised |-> TRUE, u |-> u]
    ELSE IF num_tiles > 0 THEN set_num_tiles(u, num_tiles)
    ELSE [raised |-> FALSE, u |-> u]

\* ------------------------------------------------------------------------
\* ExtWidthInfo: the legal extension widths between two rows
\* ------------------------------------------------------------------------
ExtWidthInfo(discrete_w_list, w_min, step_size) ==
    [discrete_widths |-> discrete_w_list, wmin |-> w_min, step |-> step_size]

\* bisect_left on a sorted list: the number of entries below w
bisect_left(a, w) == Cardinality({i \in 1..Len(a) : a[i] < w})

ExtWidthInfo_is_valid(info, w) ==
    IF w >= info.wmin THEN (w - info.wmin) % info.step = 0
    ELSE LET idx == bisect_left(info.discrete_widths, w)
         IN idx # Len(info.discrete_widths) /\ info.discrete_widths[idx + 1] = w

\* variant: the step below w is taken
next_width_from_wmin_Floor(info, w, even) ==
    LET ans == info.wmin + ((w - info.wmin) \div info.step) * info.step
    IN IF even /\ Odd(ans)
       THEN IF ~Odd(info.step) THEN [raised |-> TRUE, w |-> ans]
            ELSE [raised |-> FALSE, w |-> ans + info.step]
       ELSE [raised |-> FALSE, w |-> ans]

\* get_next_width for w >= wmin; raised when no even width can be reached
next_width_from_wmin(info, w, even) ==
    LET diff == w - info.wmin
        q == diff \div info.step
        r == diff % info.step
        ans == info.wmin + (q + (IF r # 0 THEN 1 ELSE 0)) * info.step
    IN IF even /\ Odd(ans)
       THEN IF ~Odd(info.step) THEN [raised |-> TRUE, w |-> ans]
            ELSE [raised |-> FALSE, w |-> ans + info.step]
       ELSE [raised |-> FALSE, w |-> ans]

get_next_width(info, w, even) ==
    IF w >= info.wmin THEN next_width_from_wmin(info, w, even)
    ELSE LET dw == info.discrete_widths
             idx == bisect_left(dw, w)
             evens == {i \in (idx + 1)..Len(dw) : ~Odd(dw[i])}
         IN IF idx = Len(dw)
            THEN IF even THEN next_width_from_wmin(info, info.wmin, TRUE)
                 ELSE [raised |-> FALSE, w |-> info.wmin]
            ELSE IF ~even THEN [raised |-> FALSE, w |-> dw[idx + 1]]
            ELSE IF evens = {} THEN next_width_from_wmin(info, info.wmin, TRUE)
            ELSE [raised |-> FALSE, w |-> dw[CHOOSE i \in evens : \A j \in evens : i <= j]]

\* ------------------------------------------------------------------------
\* TileInfoTable.make_tiles: abutting tiles and extending one of them
\* ------------------------------------------------------------------------
RowPlaceInfo_get_ext_margin(rp, top_edge) ==
    IF top_edge THEN rp.yt - rp.yt_blk ELSE rp.yb_blk - rp.yb

\* variant: the bottom extension moves the block and leaves the top of the row
RowPlaceInfo_get_extend_KeepTop(rp, delta, top_edge) ==
    IF top_edge THEN [rp EXCEPT !.yt = rp.yt + delta]
    ELSE [rp EXCEPT !.yb_blk = rp.yb_blk + delta, !.yt_blk = rp.yt_blk + delta]

RowPlaceInfo_get_extend(rp, delta, top_edge) ==
    IF top_edge THEN [rp EXCEPT !.yt = rp.yt + delta]
    ELSE [rp EXCEPT !.yt = rp.yt + delta, !.yb_blk = rp.yb_blk + delta,
                    !.yt_blk = rp.yt_blk + delta]

RowPlaceInfo_get_move(rp, delta) ==
    [rp EXCEPT !.yb = rp.yb + delta, !.yt = rp.yt + delta, !.yb_blk = rp.yb_blk + delta,
               !.yt_blk = rp.yt_blk + delta]

get_mirror(pinfo, top_edge) ==
    (top_edge /\ pinfo.top_mirror) \/ (~top_edge /\ pinfo.bot_mirror)

\* wmargin and ext_w_info: what the wires and the technology give for the two edges
get_abut_info(pinfo, rhs, top_edge, rhs_top_edge, wmargin, ext_w_info) ==
    LET rpinfo == pinfo.pinfo_list[IF top_edge THEN Len(pinfo.pinfo_list) ELSE 1]
        rhs_rpinfo == rhs.pinfo_list[IF rhs_top_edge THEN Len(rhs.pinfo_list) ELSE 1]
        emargin1 == RowPlaceInfo_get_ext_margin(rpinfo, top_edge)
        emargin2 == RowPlaceInfo_get_ext_margin(rhs_rpinfo, rhs_top_edge)
        emargin_tot == emargin1 + emargin2
        ext_w_min == CeilDiv(emargin_tot + wmargin, BlkHPitch)
        ext_w == get_next_width(ext_w_info, ext_w_min, FALSE).w
    IN [margin |-> BlkHPitch * ext_w - emargin_tot, em1 |-> emargin1, em2 |-> emargin2]

\* the new tile is constructed without the wire_lookup argument
_get_extend_helper(pinfo, delta, top_edge) ==
    LET n == Len(pinfo.pinfo_list)
        new_info_list ==
           [i \in 1..n |->
               IF top_edge
               THEN IF i = n THEN RowPlaceInfo_get_extend(pinfo.pinfo_list[i], delta, TRUE)
                    ELSE pinfo.pinfo_list[i]
               ELSE IF i = 1 THEN RowPlaceInfo_get_extend(pinfo.pinfo_list[i], delta, FALSE)
                    ELSE RowPlaceInfo_get_move(pinfo.pinfo_list[i], delta)]
    IN MOSBasePlaceInfo(pinfo.name, pinfo.arr_info, new_info_list, pinfo.bot_mirror,
                        pinfo.top_mirror, pinfo.options, pinfo.priority, EmptyLookup)

\* the loop of get_extend: the extension that also keeps the height quantized
\* variant: the first legal extension is taken, quantized or not
get_extend_loop_First(em_tot, margin, ext_w_info, iter_idx, iter_max) ==
    LET cur_ext_w == CeilDiv(em_tot + margin, BlkHPitch)
        next_ext_w == get_next_width(ext_w_info, cur_ext_w, FALSE).w
    IN [raised |-> FALSE, ext_dim |-> next_ext_w * BlkHPitch - em_tot, iters |-> 1]

\* iters counts the passes of the loop body
RECURSIVE get_extend_loop(_, _, _, _, _)
get_extend_loop(em_tot, margin, ext_w_info, iter_idx, iter_max) ==
    IF iter_idx >= iter_max THEN [raised |-> TRUE, ext_dim |-> 0, iters |-> iter_idx]
    ELSE LET cur_ext_w == CeilDiv(em_tot + margin, BlkHPitch)
             next_ext_w == get_next_width(ext_w_info, cur_ext_w, FALSE).w
             ext_dim == next_ext_w * BlkHPitch - em_tot
             q == ext_dim \div TotHPitch
         IN IF ext_dim % TotHPitch = 0
            THEN [raised |-> FALSE, ext_dim |-> ext_dim, iters |-> iter_idx + 1]
            ELSE get_extend_loop(em_tot, (q + 1) * TotHPitch, ext_w_info, iter_idx + 1,
                                 iter_max)

get_extend(pinfo, margin, top_edge, ext_w_info, cur_em, other_em, iter_max) ==
    LET r == get_extend_loop(cur_em + other_em, margin, ext_w_info, 0, iter_max)
    IN [raised |-> r.raised, iters |-> r.iters,
        pinfo |-> IF r.raised THEN pinfo ELSE _get_extend_helper(pinfo, r.ext_dim, top_edge)]

\* variant: a tie of the priorities extends the first tile
decide_extend_TieFirst(pinfo1, pinfo2, top_edge1, top_edge2) ==
    LET mirror1 == get_mirror(pinfo1, top_edge1)
        mirror2 == get_mirror(pinfo2, top_edge2)
    IN IF mirror1 = mirror2
       THEN IF pinfo2.priority > pinfo1.priority THEN "ext2" ELSE "ext1"
       ELSE IF mirror1 THEN "ext2" ELSE "ext1"

\* which tile make_tiles extends: "ext1", "ext2", or "raise"
decide_extend(pinfo1, pinfo2, top_edge1, top_edge2) ==
    LET mirror1 == get_mirror(pinfo1, top_edge1)
        mirror2 == get_mirror(pinfo2, top_edge2)
    IN IF mirror1 = mirror2
       THEN IF pinfo1.priority > pinfo2.priority THEN "ext1"
            ELSE IF pinfo2.priority > pinfo1.priority THEN "ext2"
            ELSE "raise"
       ELSE IF mirror1 THEN "ext2" ELSE "ext1"

\* one entry of abut_list
abut_tiles(pinfo_dict, val) ==
    LET pinfo1 == pinfo_dict[val.name1]
        pinfo2 == pinfo_dict[val.name2]
        info == get_abut_info(pinfo1, pinfo2, val.top_edge1, val.top_edge2, val.wmargin,
                              val.ext_w_info)
        ext == decide_extend(pinfo1, pinfo2, val.top_edge1, val.top_edge2)
        e1 == get_extend(pinfo1, info.margin, val.top_edge1, val.ext_w_info, info.em1, info.em2,
                         max_iter)
        e2 == get_extend(pinfo2, info.margin, val.top_edge2, val.ext_w_info, info.em2, info.em1,
                         max_iter)
    IN IF info.margin <= 0 THEN [raised |-> FALSE, pinfo_dict |-> pinfo_dict]
       ELSE IF ext = "raise" THEN [raised |-> TRUE, pinfo_dict |-> pinfo_dict]
       ELSE IF ext = "ext1"
       THEN [raised |-> e1.raised, pinfo_dict |-> [pinfo_dict EXCEPT ![val.name1] = e1.pinfo]]
       ELSE [raised |-> e2.raised, pinfo_dict |-> [pinfo_dict EXCEPT ![val.name2] = e2.pinfo]]

\* the loop over abut_list
RECURSIVE abut_loop(_, _)
abut_loop(pinfo_dict, abuts) ==
    IF abuts = <<>> THEN [raised |-> FALSE, pinfo_dict |-> pinfo_dict]
    ELSE LET r == abut_tiles(pinfo_dict, Head(abuts))
         IN IF r.raised THEN r ELSE abut_loop(r.pinfo_dict, Tail(abuts))

make_tiles(specs) == abut_loop(specs.place_info, specs.abut_list)

\* ------------------------------------------------------------------------
\* _place_rows: the Y coordinates of the rows of a tile.  The wires of a row
\* enter as the coordinates they demand: wire_dy (bottom wires, above the
\* previous row), top_dy (top wires, above the row's block), shared_y (the
\* connection of a shared bottom wire, COORD_MIN when there is none).
\* ------------------------------------------------------------------------
RoundUp(y, pitch) == CeilDiv(y, pitch) * pitch

_place_mirror(mirror_ext_w_info, ycur) ==
    LET ext_w_cur == ycur \div BlkHPitch
        ext_w_tot == get_next_width(mirror_ext_w_info, 2 * ext_w_cur, TRUE)
        ext_w_ans == ext_w_tot.w \div 2
    IN [raised |-> ext_w_tot.raised, ycur |-> ycur + (ext_w_ans - ext_w_cur) * BlkHPitch,
        ext_w |-> ext_w_ans]

\* rows whose non-shared bottom wires do not reach below the connections
_calc_vm_dy(row, ycur, ytop_conn_prev) == ytop_conn_prev + ConnSpLe - (ycur + row.conn_yb)

\* the row stays where its wires put it
fix_ext_height_Keep(ext_w_info, ycur, ytop_prev, prev_ext_h) == ycur

\* "make sure extension height is valid"
fix_ext_height(ext_w_info, ycur, ytop_prev, prev_ext_h) ==
    LET cur_bot_ext_h == (ycur - ytop_prev) \div BlkHPitch
        ext_h == get_next_width(ext_w_info, prev_ext_h + cur_bot_ext_h, FALSE).w
    IN ytop_prev + BlkHPitch * (ext_h - prev_ext_h)

\* the line-end spacing loop
RECURSIVE line_end_loop(_, _, _, _, _, _, _, _)
line_end_loop(ext_w_info, row, ycur, ytop_prev, prev_ext_h, ytop_conn_prev, dy, cnt) ==
    IF dy > 0 /\ cnt < place_max_iter
    THEN LET y1 == RoundUp(ycur + dy, BlkHPitch)
             y2 == fix_ext_height(ext_w_info, y1, ytop_prev, prev_ext_h)
         IN line_end_loop(ext_w_info, row, y2, ytop_prev, prev_ext_h, ytop_conn_prev,
                          _calc_vm_dy(row, y2, ytop_conn_prev), cnt + 1)
    ELSE [raised |-> dy > 0, ycur |-> ycur, moved |-> cnt > 0]

\* the loop body of _place_rows up to the top_mirror loop
place_row(in, st) ==
    LET row == in.rows[st.idx + 1]
        is_top_row == st.idx = Len(in.rows) - 1
        y0 == RoundUp(Max(st.ytop_prev, st.ytop_prev + row.wire_dy), BlkHPitch)
        pm == _place_mirror(in.ext, y0)
        ext_w_info == IF st.idx = 0 /\ ~in.bot_mirror THEN ExtWidthInfo(<<>>, 0, 1) ELSE in.ext
        y1 == IF st.idx = 0 THEN (IF in.bot_mirror THEN pm.ycur ELSE y0)
              ELSE fix_ext_height(ext_w_info, y0, st.ytop_prev, st.prev_ext_h)
        shared == IF row.shared_y = COORD_MIN THEN COORD_MIN ELSE st.ytop_prev + row.shared_y
        ytop_conn_prev == Max(st.ytop_conn_prev, shared)
        le == IF ytop_conn_prev # COORD_MIN /\ ~row.ignore_bot_vm_sp_le
              THEN line_end_loop(ext_w_info, row, y1, st.ytop_prev, st.prev_ext_h,
                                 ytop_conn_prev, _calc_vm_dy(row, y1, ytop_conn_prev), 0)
              ELSE [raised |-> FALSE, ycur |-> y1, moved |-> FALSE]
        ycur == le.ycur
        ytop_blk == ycur + row.blk_h
        ytop0 == Max(ytop_blk, ytop_blk + row.top_dy)
        ytop1 == st.ytop_prev + RoundUp(ytop0 - st.ytop_prev, BlkHPitch)
        ytop == IF is_top_row THEN RoundUp(Max(ytop1, in.tot_height_min), TotHPitch)
                ELSE ytop1
    IN [raised |-> (st.idx = 0 /\ in.bot_mirror /\ pm.raised) \/ le.raised,
        st |-> [st EXCEPT !.ycur = ycur, !.ytop_blk = ytop_blk, !.ytop = ytop,
                          !.ytop_conn_prev = ytop_conn_prev, !.moved = le.moved]]

\* the end of the loop body: the row is recorded and becomes the previous row
finish_row(in, st, out) ==
    [st |-> [st EXCEPT !.idx = st.idx + 1, !.ytop_prev = st.ytop,
                       !.ytop_conn_prev = st.ycur + in.rows[st.idx + 1].conn_yt,
                       !.prev_ext_h = (st.ytop - st.ytop_blk) \div BlkHPitch],
     out |-> Append(out, [yb |-> st.ytop_prev, yt |-> st.ytop, yb_blk |-> st.ycur,
                          yt_blk |-> st.ytop_blk, moved |-> st.moved])]

\* one pass of the top_mirror loop
mirror_pass(in, st) ==
    LET ytop_delta == st.ytop - st.ytop_blk
        pm == _place_mirror(in.ext, ytop_delta)
    IN [raised |-> pm.raised, pass_mirror |-> pm.ycur = ytop_delta,
        ytop |-> RoundUp(st.ytop + pm.ycur - ytop_delta, TotHPitch)]

\* ------------------------------------------------------------------------
\* State
\* ------------------------------------------------------------------------
VARIABLES
    tp_elem,    \* the TilePatternElement under query
    tp_op,      \* last tile-algebra operation applied
    tp_arg,     \* its arguments
    tp_infos,   \* get_tile_info results for tile indices 0, 1, 2, ...
    tp_flat,    \* result of get_flat_row_idx_and_flip
    tp_back,    \* result of flat_row_to_tile_row on tp_flat
    tp_sub,     \* result of get_sub_pattern_element
    ua,         \* the MOSUsedArray
    abut_list,  \* the caller's list of abutting transistor edges
    ua_last,    \* the last call made on the MOSUsedArray and whether it raised
    ua_nops,    \* number of calls made so far
    sv_table,   \* the TileInfoTable built from the specification
    sv_disk,    \* the YAML files of its directory
    sv_loaded,  \* the TileInfoTable read back
    sv_pc,      \* "made", "saved" or "loaded"
    wg,         \* the WireGraph: nodes, edges, attributes, align_specs, lower, upper
    wg_pc,      \* "built", "placed", "aligned", "realigned" or "error"
    wg_call,    \* the arguments of the place_compact call and the order it visited
    mt_specs,   \* the specification dictionary given to make_tiles
    mt_table,   \* the tiles of the TileInfoTable it returned
    mt_pc,      \* "specs", "done" or "error"
    mb_ua,      \* the MOSUsedArray of a MOSBase
    mb_size,    \* its size_defined flag
    mb_last,    \* the last call made on the MOSBase, whether it raised, the Y it placed at
    mb_nops,    \* number of calls made so far
    rp_in,      \* the arguments of _place_rows
    rp_st,      \* its local variables
    rp_out,     \* pinfo_list
    rp_pc,      \* "row", "mirror", "done", "copied" or "error"
    rp_copy,    \* a copy made of a row of pinfo_list by get_extend or get_move
    ge_call,    \* the arguments of a MOSBasePlaceInfo.get_extend call
    ge_res,     \* what it returned, or that it raised
    nw_call,    \* an ExtWidthInfo and the arguments of a get_next_width call on it
    nw_res,     \* what it returned, or that it raised
    ed_ua,      \* a MOSUsedArray that devices with distinct edge infos are added to
    ed_abut,    \* the abut_list handed to every add_mos_raw call on it
    ed_devs,    \* the devices added so far: row, interval, left and right edge as drawn
    ed_last,    \* the last add_mos_raw call and whether it raised
    ed_nops,    \* number of calls made so far
    ct_ua,      \* a MOSUsedArray that instances are copied into by add_tiles
    ct_abut,    \* the abut_list handed to add_tiles
    ct_call,    \* the last add_tiles call: its arguments and whether it raised
    ct_nops     \* number of add_tiles calls made so far

tp_vars == <<tp_elem, tp_op, tp_arg, tp_infos, tp_flat, tp_back, tp_sub>>
ua_vars == <<ua, abut_list, ua_last, ua_nops>>
sv_vars == <<sv_table, sv_disk, sv_loaded, sv_pc>>

wg_vars == <<wg, wg_pc, wg_call>>

mt_vars == <<mt_specs, mt_table, mt_pc>>

mb_vars == <<mb_ua, mb_size, mb_last, mb_nops>>

rp_vars == <<rp_in, rp_st, rp_out, rp_pc, rp_copy>>

ge_vars == <<ge_call, ge_res>>

nw_vars == <<nw_call, nw_res>>

ed_vars == <<ed_ua, ed_abut, ed_devs, ed_last, ed_nops>>
ct_vars == <<ct_ua, ct_abut, ct_call, ct_nops>>

vars ==
    <<tp_vars, ua_vars, sv_vars, wg_vars, mt_vars, mb_vars, rp_vars, ge_vars, nw_vars,
      ed_vars, ct_vars>>
tp_others ==
    <<ua_vars, sv_vars, wg_vars, mt_vars, mb_vars, rp_vars, ge_vars, nw_vars, ed_vars,
      ct_vars>>
ua_others ==
    <<tp_vars, sv_vars, wg_vars, mt_vars, mb_vars, rp_vars, ge_vars, nw_vars, ed_vars,
      ct_vars>>
sv_others ==
    <<tp_vars, ua_vars, wg_vars, mt_vars, mb_vars, rp_vars, ge_vars, nw_vars, ed_vars,
      ct_vars>>
wg_others ==
    <<tp_vars, ua_vars, sv_vars, mt_vars, mb_vars, rp_vars, ge_vars, nw_vars, ed_vars,
      ct_vars>>
mt_others ==
    <<tp_vars, ua_vars, sv_vars, wg_vars, mb_vars, rp_vars, ge_vars, nw_vars, ed_vars,
      ct_vars>>
mb_others ==
    <<tp_vars, ua_vars, sv_vars, wg_vars, mt_vars, rp_vars, ge_vars, nw_vars, ed_vars,
      ct_vars>>
rp_others ==
    <<tp_vars, ua_vars, sv_vars, wg_vars, mt_vars, mb_vars, ge_vars, nw_vars, ed_vars,
      ct_vars>>
ge_others ==
    <<tp_vars, ua_vars, sv_vars, wg_vars, mt_vars, mb_vars, rp_vars, nw_vars, ed_vars,
      ct_vars>>
nw_others ==
    <<tp_vars, ua_vars, sv_vars, wg_vars, mt_vars, mb_vars, rp_vars, ge_vars, ed_vars,
      ct_vars>>

ed_others ==
    <<tp_vars, ua_vars, sv_vars, wg_vars, mt_vars, mb_vars, rp_vars, ge_vars, nw_vars,
      ct_vars>>
ct_others ==
    <<tp_vars, ua_vars, sv_vars, wg_vars, mt_vars, mb_vars, rp_vars, ge_vars, nw_vars,
      ed_vars>>

\* ------------------------------------------------------------------------
\* Tile algebra: elements drawn at construction, queries as actions
\* ------------------------------------------------------------------------
Leaves ==
    {TilePatternElement(InfoTile(t), m, f, x) :
        t \in TileNames, m \in BOOLEAN, f \in BOOLEAN, x \in 1..MaxMult}

LeafPatterns == {<<a>> : a \in Leaves} \cup {<<a, b>> : a \in Leaves, b \in Leaves}

Nested ==
    {TilePatternElement(InfoPattern(p), m, f, x) :
        p \in LeafPatterns, m \in BOOLEAN, f \in BOOLEAN, x \in 1..MaxMult}

\* two levels of nesting, over a reduced set of inner elements
InnerLeaves == {e \in Leaves : e.info.tile = "A" /\ e.mult = 1}
InnerNested ==
    {TilePatternElement(InfoPattern(<<a, TilePatternElement(InfoTile("B"), TRUE, f, 2)>>),
                        m, g, 2) :
        a \in InnerLeaves, f \in BOOLEAN, m \in BOOLEAN, g \in BOOLEAN}
Deep ==
    {TilePatternElement(InfoPattern(<<a, n>>), m, f, 1) :
        a \in InnerLeaves, n \in InnerNested, m \in BOOLEAN, f \in BOOLEAN}

Elements == Leaves \cup Nested \cup Deep

NoInfo == [pinfo |-> "", y0 |-> 0, flip |-> FALSE]
NoFlat == [row |-> 0, flip |-> FALSE]

TileInit0 ==
    /\ tp_elem \in Elements
    /\ tp_op = "new"
    /\ tp_arg = <<0, 0>>
    /\ tp_infos = <<>>
    /\ tp_flat = NoFlat
    /\ tp_back = <<0, 0>>
    /\ tp_sub = ErrElement

NumQuery(e) == E_num_tiles(e) + MaxExtra

\* get_tile_info(k) for the next tile index k = 0, 1, 2, ...
GetTileInfo ==
    /\ tp_op \in {"new", "get_tile_info"}
    /\ Len(tp_infos) < NumQuery(tp_elem)
    /\ tp_op' = "get_tile_info"
    /\ tp_arg' = <<Len(tp_infos), 0>>
    /\ tp_infos' = Append(tp_infos, E_get_tile_info(tp_elem, Len(tp_infos)))
    /\ UNCHANGED <<tp_elem, tp_flat, tp_back, tp_sub>>
    /\ UNCHANGED tp_others

\* get_flat_row_idx_and_flip(tile_idx, row_idx) followed by flat_row_to_tile_row
FlatRowRoundTrip ==
    /\ tp_op = "new"
    /\ \E tile_idx \in 0..(NumQuery(tp_elem) - 1) :
       \E row_idx \in 0..(tile_num_rows(E_get_tile_pinfo(tp_elem, tile_idx)) - 1) :
          LET fr == E_get_flat_row_idx_and_flip(tp_elem, tile_idx, row_idx)
          IN /\ tp_op' = "flat_row"
             /\ tp_arg' = <<tile_idx, row_idx>>
             /\ tp_flat' = fr
             /\ tp_back' = E_flat_row_to_tile_row(tp_elem, fr.row)
    /\ UNCHANGED <<tp_elem, tp_infos, tp_sub>>
    /\ UNCHANGED tp_others

\* get_sub_pattern_element(num_tiles, 1, False, False, start_idx=start_idx)
GetSubPattern ==
    /\ tp_op = "new"
    /\ \E start_idx \in 0..(NumQuery(tp_elem) - 1) :
       \E num_tiles \in 1..NumQuery(tp_elem) :
          /\ tp_op' = "sub_pattern"
          /\ tp_arg' = <<start_idx, num_tiles>>
          /\ tp_sub' = E_get_sub_pattern_element(tp_elem, num_tiles, 1, FALSE, FALSE,
                                                 start_idx)
    /\ UNCHANGED <<tp_elem, tp_infos, tp_flat, tp_back>>
    /\ UNCHANGED tp_others

\* get_sub_pattern_element(q * num_tiles_unit, mult, mirror, flip): q whole units
GetSubWhole ==
    /\ tp_op = "new"
    /\ \E q \in 1..(MaxMult + 1), mult \in 1..MaxMult, mirror \in BOOLEAN, flip \in BOOLEAN :
          /\ tp_op' = "sub_whole"
          /\ tp_arg' = <<q, mult, mirror, flip>>
          /\ tp_sub' = E_get_sub_pattern_element(tp_elem, q * E_num_tiles_unit(tp_elem), mult,
                                                 mirror, flip, 0)
    /\ UNCHANGED <<tp_elem, tp_infos, tp_flat, tp_back>>
    /\ UNCHANGED tp_others

TileNext == GetTileInfo \/ FlatRowRoundTrip \/ GetSubPattern

\* elements whose sub-patterns of whole units are taken: tiles, patterns of
\* unrepeated tiles, and two levels of nesting over an unflipped first tile
FoldElements ==
    Leaves
    \cup {e \in Nested : \A i \in 1..Len(e.info.pat) : e.info.pat[i].mult = 1}
    \cup {e \in Deep : ~e.info.pat[1].mirror /\ ~e.info.pat[1].flip}

FoldInit0 ==
    /\ tp_elem \in FoldElements
    /\ tp_op = "new"
    /\ tp_arg = <<0, 0>>
    /\ tp_infos = <<>>
    /\ tp_flat = NoFlat
    /\ tp_back = <<0, 0>>
    /\ tp_sub = ErrElement

FoldNext == GetSubWhole

\* ------------------------------------------------------------------------
\* MOSUsedArray: construction and calls
\* ------------------------------------------------------------------------
\* elements a MOSUsedArray is built on: MOSUsedArray(tile) wraps the tile with
\* mirror=True, flip=False; a TilePattern argument gives a nested element
ElemA == TilePatternElement(InfoTile("A"), TRUE, FALSE, 1)
ElemAFlip == TilePatternElement(InfoTile("A"), TRUE, TRUE, 1)
ElemB == TilePatternElement(InfoTile("B"), TRUE, FALSE, 1)
ElemBA == TilePatternElement(InfoPattern(<<ElemB, ElemA>>), TRUE, FALSE, 1)

UAElements == {ElemA, ElemBA}

\* devices passed to add_mos / add_mos_raw:
\* seg, flip_tile (add_mos_raw only), flip_lr, flip_ud, left, right, abut_list given
Devices ==
    {[seg |-> 1, flip_tile |-> FALSE, flip_lr |-> FALSE, flip_ud |-> FALSE,
      left |-> "L", right |-> "R", use_abut |-> TRUE],
     [seg |-> 2, flip_tile |-> TRUE, flip_lr |-> FALSE, flip_ud |-> FALSE,
      left |-> "L", right |-> "R", use_abut |-> TRUE],
     [seg |-> 1, flip_tile |-> FALSE, flip_lr |-> TRUE, flip_ud |-> TRUE,
      left |-> "None", right |-> "R", use_abut |-> FALSE]}

TileIdxs == {0, 1}

\* used arrays of the instances handed to add_tiles
InstDev(u, tile_idx, row_idx, col_idx, seg) ==
    add_mos(u, <<>>, tile_idx, row_idx, col_idx, seg, FALSE, FALSE, "L", "R", "T", "B",
            FALSE).u
Instances ==
    {InstDev(InstDev(UA_new(ElemA), 0, 0, 0, 1), 0, 0, 1, 1),
     InstDev(UA_new(ElemAFlip), 0, 1, 0, 2),
     InstDev(InstDev(UA_new(ElemBA), 0, 0, 0, 1), 1, 0, 1, 1)}

NoCall == [op |-> "new", raised |-> FALSE, row |-> 0, intv |-> <<0, 0>>, val |-> 0]

UAInit0 ==
    /\ ua \in {UA_new(e) : e \in UAElements}
    /\ abut_list = <<>>
    /\ ua_last = NoCall
    /\ ua_nops = 0

TileIdle ==
    /\ tp_elem = ErrElement
    /\ tp_op = "new"
    /\ tp_arg = <<0, 0>>
    /\ tp_infos = <<>>
    /\ tp_flat = NoFlat
    /\ tp_back = <<0, 0>>
    /\ tp_sub = ErrElement

UAIdle ==
    /\ ua = UA_new(TilePatternElement(InfoTile("A"), TRUE, FALSE, 1))
    /\ abut_list = <<>>
    /\ ua_last = NoCall
    /\ ua_nops = 0


AddMosRaw ==
    /\ ua_nops < MaxOps
    /\ \E flat_row_idx \in {0, num_flat_rows(ua)}, col_idx \in 0..MaxCol, d \in Devices :
          LET r == add_mos_raw(ua, abut_list, flat_row_idx, d.flip_tile, col_idx, d.seg,
                               d.flip_lr, d.flip_ud, d.left, d.right, "T", "B", d.use_abut)
          IN /\ ua' = r.u
             /\ abut_list' = r.abut
             /\ ua_last' = [op |-> "add_mos_raw", raised |-> r.raised,
                            row |-> flat_row_idx,
                            intv |-> get_interval(col_idx, d.seg, d.flip_lr), val |-> 0]
    /\ ua_nops' = ua_nops + 1
    /\ UNCHANGED ua_others

AddMos ==
    /\ ua_nops < MaxOps
    /\ \E tile_idx \in TileIdxs, col_idx \in 0..MaxCol, d \in Devices :
       \E row_idx \in 0..(tile_num_rows(E_get_tile_pinfo(ua.element, tile_idx)) - 1) :
          LET r == add_mos(ua, abut_list, tile_idx, row_idx, col_idx, d.seg,
                           d.flip_lr, d.flip_ud, d.left, d.right, "T", "B", d.use_abut)
          IN /\ ua' = r.u
             /\ abut_list' = r.abut
             /\ ua_last' = [op |-> "add_mos", raised |-> r.raised,
                            row |-> E_get_flat_row_idx_and_flip(ua.element, tile_idx,
                                                                row_idx).row,
                            intv |-> get_interval(col_idx, d.seg, d.flip_lr), val |-> 0]
    /\ ua_nops' = ua_nops + 1
    /\ UNCHANGED ua_others

AddTiles ==
    /\ ua_nops < MaxOps
    /\ \E tile_idx \in TileIdxs, col_idx \in 0..MaxCol, used_arr \in Instances,
          flip_lr \in BOOLEAN :
          LET r == add_tiles(ua, abut_list, tile_idx, col_idx, used_arr, flip_lr)
          IN /\ ua' = r.u
             /\ abut_list' = r.abut
             /\ ua_last' = [op |-> "add_tiles", raised |-> r.raised, row |-> 0,
                            intv |-> <<0, 0>>, val |-> 0]
    /\ ua_nops' = ua_nops + 1
    /\ UNCHANGED ua_others

SetNumTiles ==
    /\ ua_nops < MaxOps
    /\ \E val \in 0..3 :
          LET r == set_num_tiles(ua, val)
          IN /\ ua' = r.u
             /\ ua_last' = [op |-> "set_num_tiles", raised |-> r.raised, row |-> 0,
                            intv |-> <<0, 0>>, val |-> val]
    /\ ua_nops' = ua_nops + 1
    /\ UNCHANGED <<abut_list, ua_others>>

SetNumCols ==
    /\ ua_nops < MaxOps
    /\ \E val \in 0..(MaxCol + 1) :
          LET r == set_num_cols(ua, val)
          IN /\ ua' = r.u
             /\ ua_last' = [op |-> "set_num_cols", raised |-> r.raised, row |-> 0,
                            intv |-> <<0, 0>>, val |-> val]
    /\ ua_nops' = ua_nops + 1
    /\ UNCHANGED <<abut_list, ua_others>>

\* ------------------------------------------------------------------------
\* Persisted layout: tables drawn at construction, save and load as actions
\* ------------------------------------------------------------------------
SigKey == <<"sig", 0>>
HmLayer == 2

WireLookups == {EmptyLookup} \cup {[k \in {SigKey} |-> <<t, 1>>] : t \in 0..MaxHalfTrack}

ExtInfo == [row_type |-> "nch", threshold |-> "standard", info |-> "ext"]

RowInfos ==
    {[lch |-> 1, width |-> 4, sub_width |-> 4, row_type |-> "nch",
      threshold |-> "standard", height |-> 10, flip |-> f, top_ext_info |-> ExtInfo,
      bot_ext_info |-> ExtInfo, info |-> "row", g_conn_y |-> <<0, 2>>,
      guard_ring |-> g, guard_ring_col |-> gc, double_gate |-> FALSE] :
     f \in BOOLEAN, g \in BOOLEAN, gc \in BOOLEAN}

RowPlaceInfos ==
    {[row_info |-> r, bot_wires |-> w, top_wires |-> EmptyLookup, yb |-> 0, yt |-> 10,
      yb_blk |-> 0, yt_blk |-> 10, y_conn |-> <<2, 8>>, mid_wires |-> w] :
     r \in RowInfos, w \in WireLookups}

ArrInfos ==
    {MOSArrayPlaceInfo(1, "widths", [k \in {<<"sig", "sig">>} |-> sp], 3, 1, hs, "opts") :
     sp \in 0..MaxHalfTrack, hs \in BOOLEAN}

\* a tile made with wire_specs carries one WireLookup per wire layer
TileWireLookups == {EmptyLookup} \cup {[lay \in {HmLayer} |-> [k \in {SigKey} |-> <<1, 1>>]]}

Tables ==
    {[arr_info |-> a,
      pinfo_dict |-> [n \in {"tile0"} |->
                         MOSBasePlaceInfo(n, a, <<rp>>, FALSE, tm, "topts", pr, wl)]] :
     a \in ArrInfos, rp \in RowPlaceInfos, tm \in BOOLEAN, pr \in 0..MaxPriority,
     wl \in TileWireLookups}

NoDisk == [names |-> {}]
NoTable == [pinfo_dict |-> EmptyLookup]

SaveInit0 ==
    /\ sv_table \in Tables
    /\ sv_disk = NoDisk
    /\ sv_loaded = NoTable
    /\ sv_pc = "made"

SaveIdle ==
    /\ sv_table = NoTable
    /\ sv_disk = NoDisk
    /\ sv_loaded = NoTable
    /\ sv_pc = "idle"

Save ==
    /\ sv_pc = "made"
    /\ sv_disk' = TileInfoTable_save(sv_table)
    /\ sv_pc' = "saved"
    /\ UNCHANGED <<sv_table, sv_loaded, sv_others>>

Load ==
    /\ sv_pc = "saved"
    /\ sv_loaded' = TileInfoTable_load(sv_disk)
    /\ sv_pc' = "loaded"
    /\ UNCHANGED <<sv_table, sv_disk, sv_others>>

SaveNext == Save \/ Load

\* ------------------------------------------------------------------------
\* Wire graphs: graphs drawn at construction, placement and alignment as actions
\* ------------------------------------------------------------------------
Alignments == {"LOWER_COMPACT", "CENTER_COMPACT", "UPPER_COMPACT"}

\* wire groups: lists of distinct wires, each with its alignment
WireGroups ==
    {<<wl, al>> : wl \in {q \in UNION {[1..k -> WireNames] : k \in 1..MaxGrpLen} :
                            \A i, j \in 1..Len(q) : i # j => q[i] # q[j]},
                  al \in Alignments}

\* one or two groups of any kind, or three: a single wire, a centred group and
\* any group
WireGrpLists ==
    {<<x>> : x \in WireGroups} \cup {<<x, y>> : x \in WireGroups, y \in WireGroups}
    \cup {<<x, y, z>> : x \in {g \in WireGroups : Len(g[1]) = 1},
                        y \in {g \in WireGroups : g[2] = "CENTER_COMPACT"},
                        z \in WireGroups}

\* the WireData make_wire_graph accepts: every shared wire is on the boundary
WireGraphs ==
    {make_wire_graph(d[1], d[2]) :
        d \in {x \in WireGrpLists \X SUBSET WireNames :
                 \A n \in x[2] : SharedOk(register_all(NewBuilder, x[1], 1), n)}}

PlaceArgs ==
    {[lower |-> 0, bot_mirror |-> FALSE, top_mirror |-> FALSE, shift |-> 0, order |-> <<>>],
     [lower |-> 2 * HalfPitch, bot_mirror |-> TRUE, top_mirror |-> FALSE, shift |-> 0,
      order |-> <<>>],
     [lower |-> 0, bot_mirror |-> FALSE, top_mirror |-> TRUE, shift |-> 1, order |-> <<>>],
     [lower |-> 0, bot_mirror |-> TRUE, top_mirror |-> TRUE, shift |-> 0, order |-> <<>>]}

\* place_compact has not been called
NoPlace == [lower |-> 0, bot_mirror |-> FALSE, top_mirror |-> FALSE, shift |-> 0, order |-> <<>>]

WireInit0 ==
    /\ wg \in WireGraphs
    /\ wg_pc = "built"
    /\ wg_call = NoPlace

WireIdle ==
    /\ wg = NewBuilder
    /\ wg_pc = "idle"
    /\ wg_call = NoPlace

PlaceCompact ==
    /\ wg_pc = "built"
    /\ \E a \in PlaceArgs :
       \E order \in IF Unsorted(wg) = {} THEN TopoOrders(wg) ELSE {wg.nodes} :
          LET r == place_compact(wg, a.lower, a.bot_mirror, a.top_mirror, a.shift, order)
          IN /\ wg' = r.g
             /\ wg_pc' = IF r.raised THEN "error" ELSE "placed"
             /\ wg_call' = [a EXCEPT !.order = order]
    /\ UNCHANGED wg_others

AlignWires ==
    /\ wg_pc = "placed"
    /\ \E k \in 0..MaxGrow :
          wg' = align_wires(wg, wg.lower, wg.upper + 2 * HalfPitch * k)
    /\ wg_pc' = "aligned"
    /\ UNCHANGED <<wg_call, wg_others>>

\* a second call of align_wires with the bounds of the first
AlignAgain ==
    /\ wg_pc = "aligned"
    /\ wg' = align_wires(wg, wg.lower, wg.upper)
    /\ wg_pc' = "realigned"
    /\ UNCHANGED <<wg_call, wg_others>>

WireNext == PlaceCompact \/ AlignWires \/ AlignAgain

\* ------------------------------------------------------------------------
\* Specification: TileInfoTable.make_tiles
\* ------------------------------------------------------------------------
AbutTileNames == {"t0", "t1"}
RowHeight == 2 * TotHPitch

\* a tile of num_rows rows whose two edges have the extension margin em
PlacedTile(name, num_rows, bot_mirror, top_mirror, priority, em) ==
    MOSBasePlaceInfo(name, "arr_info",
                     [i \in 1..num_rows |->
                        [row_info |-> <<"row", i>>,
                         yb |-> (i - 1) * RowHeight + (IF i = 1 THEN 0 ELSE em),
                         yb_blk |-> (i - 1) * RowHeight + em,
                         yt_blk |-> i * RowHeight + em,
                         yt |-> i * RowHeight + em + (IF i = num_rows THEN em ELSE 0)]],
                     bot_mirror, top_mirror, "options", priority,
                     [lay \in {HmLayer} |-> [k \in {SigKey} |-> <<1, 1>>]])

PlaceInfos ==
    {[n \in AbutTileNames |-> IF n = "t0" THEN x[1] ELSE x[2]] :
        x \in {PlacedTile("t0", 1, bm, tm, pr, em) :
                  bm \in BOOLEAN, tm \in BOOLEAN, pr \in 0..MaxPriority,
                  em \in {0, TotHPitch}}
            \X {PlacedTile("t1", 2, bm, tm, pr, em) :
                  bm \in BOOLEAN, tm \in BOOLEAN, pr \in 0..MaxPriority,
                  em \in {0, TotHPitch}}}

AbutExtWidths ==
    {ExtWidthInfo(<<>>, 0, 1), ExtWidthInfo(<<1>>, 2, 2), ExtWidthInfo(<<>>, 2, 3)}

Abuts ==
    {[name1 |-> n[1], name2 |-> n[2], top_edge1 |-> e1, top_edge2 |-> e2, wmargin |-> wm,
      ext_w_info |-> ew] :
        n \in {<<"t0", "t1">>, <<"t1", "t0">>, <<"t0", "t0">>}, e1 \in BOOLEAN,
        e2 \in BOOLEAN, wm \in {0, 3}, ew \in AbutExtWidths}

\* the two tile edges an entry of abut_list names
EdgePair(v) == {<<v.name1, v.top_edge1>>, <<v.name2, v.top_edge2>>}

\* the wire margin and the extension widths belong to the pair of edges: a list
\* names a pair once
AbutLists ==
    {<<x>> : x \in Abuts}
    \cup {z \in {<<x, y>> : x \in Abuts,
                            y \in {v \in Abuts : v.name1 = "t0" /\ v.name2 = "t1"
                                                   /\ v.wmargin = 3
                                                   /\ v.ext_w_info.wmin = 0}} :
             EdgePair(z[1]) # EdgePair(z[2])}

MakeInit0 ==
    /\ mt_specs \in {[place_info |-> p, abut_list |-> l] : p \in PlaceInfos, l \in AbutLists}
    /\ mt_table = EmptyLookup
    /\ mt_pc = "specs"

MakeIdle ==
    /\ mt_specs = [place_info |-> EmptyLookup, abut_list |-> <<>>]
    /\ mt_table = EmptyLookup
    /\ mt_pc = "idle"

\* make_tiles returns the table
MakeTiles ==
    /\ mt_pc = "specs"
    /\ ~make_tiles(mt_specs).raised
    /\ mt_table' = make_tiles(mt_specs).pinfo_dict
    /\ mt_pc' = "done"
    /\ UNCHANGED <<mt_specs, mt_others>>

\* make_tiles raises
MakeTilesRaise ==
    /\ mt_pc = "specs"
    /\ make_tiles(mt_specs).raised
    /\ mt_pc' = "error"
    /\ UNCHANGED <<mt_specs, mt_table, mt_others>>

MakeNext == MakeTiles \/ MakeTilesRaise

\* ------------------------------------------------------------------------
\* Specification: MOSBase.add_mos and add_substrate_contact
\* ------------------------------------------------------------------------
BaseElements == {ElemA, ElemAFlip, ElemBA}
BaseTileIdxs == -2..1
BaseRowIdxs == -1..1

NoBaseCall ==
    [op |-> "new", raised |-> FALSE, row_idx |-> 0, col_idx |-> 0, seg |-> 0, tile_idx |-> 0,
     flip_lr |-> FALSE, y0 |-> 0]

BaseInit0 ==
    /\ mb_ua \in {UA_new(e) : e \in BaseElements}
    /\ mb_size = FALSE
    /\ mb_last = NoBaseCall
    /\ mb_nops = 0

BaseIdle ==
    /\ mb_ua = UA_new(ElemA)
    /\ mb_size = FALSE
    /\ mb_last = NoBaseCall
    /\ mb_nops = -1

SetMosSize ==
    /\ mb_nops >= 0 /\ mb_nops < MaxOps
    /\ \E num_tiles \in 0..2 :
          LET r == set_mos_size(mb_ua, mb_size, num_tiles)
          IN /\ mb_ua' = r.u
             /\ mb_size' = (mb_size \/ ~r.raised)
             /\ mb_last' = [NoBaseCall EXCEPT !.op = "set_mos_size", !.raised = r.raised,
                                              !.tile_idx = num_tiles]
    /\ mb_nops' = mb_nops + 1
    /\ UNCHANGED mb_others

BaseAddMos ==
    /\ mb_nops >= 0 /\ mb_nops < MaxOps
    /\ \E row_idx \in BaseRowIdxs, col_idx \in 0..MaxCol, seg \in 0..1,
          tile_idx \in BaseTileIdxs, flip_lr \in BOOLEAN :
          LET r == MOSBase_add_mos(mb_ua, mb_size, row_idx, col_idx, seg, tile_idx, flip_lr)
          IN /\ mb_ua' = r.u
             /\ mb_last' = [op |-> "add_mos", raised |-> r.raised, row_idx |-> row_idx,
                            col_idx |-> col_idx, seg |-> seg, tile_idx |-> tile_idx,
                            flip_lr |-> flip_lr, y0 |-> r.y0]
    /\ mb_nops' = mb_nops + 1
    /\ UNCHANGED <<mb_size, mb_others>>

BaseAddSubstrateContact ==
    /\ mb_nops >= 0 /\ mb_nops < MaxOps
    /\ \E row_idx \in BaseRowIdxs, col_idx \in 0..MaxCol, tile_idx \in BaseTileIdxs,
          flip_lr \in BOOLEAN :
          LET r == MOSBase_add_substrate_contact(mb_ua, mb_size, row_idx, col_idx, 1,
                                                 tile_idx, flip_lr)
          IN /\ mb_ua' = r.u
             /\ mb_last' = [op |-> "add_substrate_contact", raised |-> r.raised,
                            row_idx |-> row_idx, col_idx |-> col_idx, seg |-> 1,
                            tile_idx |-> tile_idx, flip_lr |-> flip_lr, y0 |-> r.y0]
    /\ mb_nops' = mb_nops + 1
    /\ UNCHANGED <<mb_size, mb_others>>

BaseNext == SetMosSize \/ BaseAddMos \/ BaseAddSubstrateContact

\* ------------------------------------------------------------------------
\* Specification: _place_rows
\* ------------------------------------------------------------------------
RowExtWidths ==
    {ExtWidthInfo(<<>>, 0, 1), ExtWidthInfo(<<1>>, 3, 2), ExtWidthInfo(<<>>, 2, 3),
     ExtWidthInfo(<<>>, 4, 4)}

RowSpecs ==
    {[blk_h |-> 3 * BlkHPitch, wire_dy |-> wd, top_dy |-> td, shared_y |-> sy,
      conn_yb |-> 0, conn_yt |-> 3 * BlkHPitch, ignore_bot_vm_sp_le |-> ig] :
        wd \in {0, 3}, td \in {0, 3}, sy \in {COORD_MIN, 3}, ig \in BOOLEAN}

RowArgs ==
    {[rows |-> r, bot_mirror |-> bm, top_mirror |-> tm, tot_height_min |-> hm, ext |-> e] :
        r \in {<<x>> : x \in RowSpecs} \cup
              {<<x, y>> : x \in {z \in RowSpecs : ~z.ignore_bot_vm_sp_le}, y \in RowSpecs},
        bm \in BOOLEAN, tm \in BOOLEAN, hm \in {0, 5 * BlkHPitch}, e \in RowExtWidths}

RowState0 ==
    [idx |-> 0, ytop_prev |-> 0, prev_ext_h |-> 0, ytop_conn_prev |-> COORD_MIN, ycur |-> 0,
     ytop_blk |-> 0, ytop |-> 0, moved |-> FALSE]

NoCopy == [op |-> "none"]

RowsInit0 ==
    /\ rp_in \in RowArgs
    /\ rp_st = RowState0
    /\ rp_out = <<>>
    /\ rp_pc = "row"
    /\ rp_copy = NoCopy

\* tiles of one row, where the top_mirror loop follows the first row at once
RowsOneInit0 ==
    /\ rp_in \in {a \in RowArgs : Len(a.rows) = 1}
    /\ rp_st = RowState0
    /\ rp_out = <<>>
    /\ rp_pc = "row"
    /\ rp_copy = NoCopy

RowsIdle ==
    /\ rp_in = [rows |-> <<>>, bot_mirror |-> FALSE, top_mirror |-> FALSE,
                tot_height_min |-> 0, ext |-> ExtWidthInfo(<<>>, 0, 1)]
    /\ rp_st = RowState0
    /\ rp_out = <<>>
    /\ rp_pc = "idle"
    /\ rp_copy = NoCopy

\* one row is placed; the last row of a top_mirror tile enters the mirror loop
PlaceRow ==
    /\ rp_pc = "row"
    /\ LET r == place_row(rp_in, rp_st)
           last == rp_st.idx = Len(rp_in.rows) - 1
           f == finish_row(rp_in, r.st, rp_out)
       IN IF r.raised
          THEN rp_pc' = "error" /\ UNCHANGED <<rp_st, rp_out>>
          ELSE IF last /\ rp_in.top_mirror
          THEN rp_pc' = "mirror" /\ rp_st' = r.st /\ UNCHANGED rp_out
          ELSE /\ rp_pc' = IF last THEN "done" ELSE "row"
               /\ rp_st' = f.st
               /\ rp_out' = f.out
    /\ UNCHANGED <<rp_in, rp_copy, rp_others>>

\* Above wmin the legal widths repeat every step, and the row top lies on the
\* tot_height_pitch grid: a pass of the mirror loop at ytop and a pass at
\* ytop + MirrorPeriod differ by MirrorPeriod only.
MirrorPeriod(info) == info.step * BlkHPitch * TotHPitch

\* one pass of "while not pass_mirror"; a row top above MaxY is followed one
\* period lower
MirrorPass ==
    /\ rp_pc = "mirror"
    /\ LET m0 == mirror_pass(rp_in, rp_st)
           m == [m0 EXCEPT !.ytop = IF m0.ytop > MaxY THEN m0.ytop - MirrorPeriod(rp_in.ext)
                                    ELSE m0.ytop]
           f == finish_row(rp_in, rp_st, rp_out)
       IN IF m.raised
          THEN rp_pc' = "error" /\ UNCHANGED <<rp_st, rp_out>>
          ELSE IF m.pass_mirror
          THEN rp_pc' = "done" /\ rp_st' = f.st /\ rp_out' = f.out
          ELSE rp_pc' = "mirror" /\ rp_st' = [rp_st EXCEPT !.ytop = m.ytop]
               /\ UNCHANGED rp_out
    /\ UNCHANGED <<rp_in, rp_copy, rp_others>>

\* RowPlaceInfo.get_extend on a row _place_rows returned: a new RowPlaceInfo is
\* built from the fields of the receiver
RowGetExtend ==
    /\ rp_pc = "done"
    /\ \E i \in 1..Len(rp_out), delta \in {0, BlkHPitch, TotHPitch}, top_edge \in BOOLEAN :
          rp_copy' = [op |-> "get_extend", idx |-> i, delta |-> delta, top_edge |-> top_edge,
                      self |-> rp_out[i],
                      row |-> RowPlaceInfo_get_extend(rp_out[i], delta, top_edge)]
    /\ rp_pc' = "copied"
    /\ UNCHANGED <<rp_in, rp_st, rp_out, rp_others>>

\* RowPlaceInfo.get_move on a row _place_rows returned
RowGetMove ==
    /\ rp_pc = "done"
    /\ \E i \in 1..Len(rp_out), delta \in {0, BlkHPitch, TotHPitch} :
          rp_copy' = [op |-> "get_move", idx |-> i, delta |-> delta, top_edge |-> FALSE,
                      self |-> rp_out[i], row |-> RowPlaceInfo_get_move(rp_out[i], delta)]
    /\ rp_pc' = "copied"
    /\ UNCHANGED <<rp_in, rp_st, rp_out, rp_others>>

RowsNext == PlaceRow \/ MirrorPass \/ RowGetExtend \/ RowGetMove

\* ------------------------------------------------------------------------
\* Specification: MOSBasePlaceInfo.get_extend
\* ------------------------------------------------------------------------
ExtendTiles ==
    {PlacedTile(n[1], n[2], FALSE, tm, 1, em) :
        n \in {<<"t0", 1>>, <<"t1", 2>>}, tm \in BOOLEAN, em \in {0, BlkHPitch, TotHPitch}}

\* cur_em is the extension margin the tile has on the edge
ExtendCalls ==
    {[pinfo |-> p, margin |-> m, top_edge |-> te, ext_w_info |-> ew,
      cur_em |-> RowPlaceInfo_get_ext_margin(
                     p.pinfo_list[IF te THEN Len(p.pinfo_list) ELSE 1], te),
      other_em |-> oe, max_iter |-> mi] :
        p \in ExtendTiles, m \in 1..MaxMargin, te \in BOOLEAN,
        ew \in RowExtWidths \cup AbutExtWidths, oe \in {0, BlkHPitch, TotHPitch},
        mi \in 1..MaxIterArg}

NoExtend == [raised |-> FALSE, iters |-> 0, pinfo |-> EmptyLookup]

ExtendInit0 ==
    /\ ge_call \in ExtendCalls
    /\ ge_res = NoExtend

ExtendIdle ==
    /\ ge_call = EmptyLookup
    /\ ge_res = NoExtend

ExtendResult ==
    get_extend(ge_call.pinfo, ge_call.margin, ge_call.top_edge, ge_call.ext_w_info,
               ge_call.cur_em, ge_call.other_em, ge_call.max_iter)

\* get_extend returns the extended tile
GetExtend ==
    /\ ge_call # EmptyLookup
    /\ ge_res = NoExtend
    /\ ~ExtendResult.raised
    /\ ge_res' = ExtendResult
    /\ UNCHANGED <<ge_call, ge_others>>

\* get_extend raises: no tile is returned
GetExtendRaise ==
    /\ ge_call # EmptyLookup
    /\ ge_res = NoExtend
    /\ ExtendResult.raised
    /\ ge_res' = [ExtendResult EXCEPT !.pinfo = EmptyLookup]
    /\ UNCHANGED <<ge_call, ge_others>>

ExtendNext == GetExtend \/ GetExtendRaise

\* ------------------------------------------------------------------------
\* Specification: ExtWidthInfo.get_next_width
\* ------------------------------------------------------------------------
RECURSIVE SortedWidths(_)
SortedWidths(S) ==
    IF S = {} THEN <<>>
    ELSE LET m == CHOOSE x \in S : \A y \in S : x <= y
         IN <<m>> \o SortedWidths(S \ {m})

\* a sorted list of discrete widths below w_min, then every step from w_min on
WidthInfos ==
    UNION {{ExtWidthInfo(SortedWidths(S), wm, st) : S \in SUBSET (0..(wm - 1)),
                                                     st \in 1..MaxStep} : wm \in 0..MaxWmin}

NoWidth == [raised |-> FALSE, w |-> -1000]

WidthInit0 ==
    /\ nw_call \in {[info |-> i, w |-> w, even |-> e] :
                        i \in WidthInfos, w \in -1..MaxWidth, e \in BOOLEAN}
    /\ nw_res = NoWidth

WidthIdle ==
    /\ nw_call = EmptyLookup
    /\ nw_res = NoWidth

\* get_next_width returns a width
GetNextWidth ==
    /\ nw_call # EmptyLookup
    /\ nw_res = NoWidth
    /\ ~get_next_width(nw_call.info, nw_call.w, nw_call.even).raised
    /\ nw_res' = get_next_width(nw_call.info, nw_call.w, nw_call.even)
    /\ UNCHANGED <<nw_call, nw_others>>

\* get_next_width raises ValueError
GetNextWidthRaise ==
    /\ nw_call # EmptyLookup
    /\ nw_res = NoWidth
    /\ get_next_width(nw_call.info, nw_call.w, nw_call.even).raised
    /\ nw_res' = [raised |-> TRUE, w |-> 0]
    /\ UNCHANGED <<nw_call, nw_others>>

WidthNext == GetNextWidth \/ GetNextWidthRaise

\* ------------------------------------------------------------------------
\* Specification: add_mos_raw calls with an abut_list and edge infos that name
\* the device and the side they belong to
\* ------------------------------------------------------------------------
LeftInfos == <<"l0", "l1", "l2", "l3", "l4">>
RightInfos == <<"r0", "r1", "r2", "r3", "r4">>

EdgeInit0 ==
    /\ ed_ua = UA_new(ElemA)
    /\ ed_abut = <<>>
    /\ ed_devs = {}
    /\ ed_last = NoCall
    /\ ed_nops = 0

EdgeIdle ==
    /\ ed_ua = UA_new(ElemA)
    /\ ed_abut = <<>>
    /\ ed_devs = {}
    /\ ed_last = NoCall
    /\ ed_nops = -1

\* add_mos_raw(flat_row_idx, ..., left, right, ..., abut_list)
EdgeAddMosRaw ==
    /\ ed_nops >= 0
    /\ ed_nops < MaxOps + 1
    /\ \E flat_row_idx \in 0..(num_flat_rows(ed_ua) - 1), col_idx \in 0..(MaxCol + 1),
          seg \in 1..2, flip_lr \in BOOLEAN :
          LET left == LeftInfos[ed_nops + 1]
              right == RightInfos[ed_nops + 1]
              intv == get_interval(col_idx, seg, flip_lr)
              r == add_mos_raw(ed_ua, ed_abut, flat_row_idx, FALSE, col_idx, seg, flip_lr,
                               FALSE, left, right, "T", "B", TRUE)
          IN /\ ed_ua' = r.u
             /\ ed_abut' = r.abut
             /\ ed_devs' = IF r.raised THEN ed_devs
                           ELSE ed_devs \cup {[row |-> flat_row_idx, start |-> intv[1],
                                               stop |-> intv[2], flip_lr |-> flip_lr,
                                               left |-> left, right |-> right]}
             /\ ed_last' = [op |-> "add_mos_raw", raised |-> r.raised, row |-> flat_row_idx,
                            intv |-> intv, val |-> 0]
    /\ ed_nops' = ed_nops + 1
    /\ UNCHANGED ed_others

EdgeNext == EdgeAddMosRaw

\* ------------------------------------------------------------------------
\* Specification: add_tiles calls, the instance and the placement kept with
\* the call
\* ------------------------------------------------------------------------
NoTiles ==
    [op |-> "new", raised |-> FALSE, tile_idx |-> 0, col_idx |-> 0, flip_lr |-> FALSE,
     used_arr |-> UA_new(ElemA)]

CopyInit0 ==
    /\ ct_ua \in {UA_new(e) : e \in UAElements \cup {ElemAFlip}}
    /\ ct_abut = <<>>
    /\ ct_call = NoTiles
    /\ ct_nops = 0

CopyIdle ==
    /\ ct_ua = UA_new(ElemA)
    /\ ct_abut = <<>>
    /\ ct_call = NoTiles
    /\ ct_nops = -1

\* add_tiles(tile_idx, col_idx, used_arr, flip_lr, abut_list)
CopyAddTiles ==
    /\ ct_nops >= 0
    /\ ct_nops < MaxOps
    /\ \E tile_idx \in TileIdxs, col_idx \in 0..MaxCol, used_arr \in Instances,
          flip_lr \in BOOLEAN :
          LET r == add_tiles(ct_ua, ct_abut, tile_idx, col_idx, used_arr, flip_lr)
          IN /\ ct_ua' = r.u
             /\ ct_abut' = r.abut
             /\ ct_call' = [op |-> "add_tiles", raised |-> r.raised, tile_idx |-> tile_idx,
                            col_idx |-> col_idx, flip_lr |-> flip_lr, used_arr |-> used_arr]
    /\ ct_nops' = ct_nops + 1
    /\ UNCHANGED ct_others

CopyNext == CopyAddTiles

Next == AddMosRaw \/ AddMos \/ AddTiles \/ SetNumTiles \/ SetNumCols

Init == UAInit0 /\ TileIdle /\ SaveIdle /\ WireIdle /\ MakeIdle /\ BaseIdle /\ RowsIdle /\ ExtendIdle /\ WidthIdle /\ EdgeIdle /\ CopyIdle
TileInit ==
    TileInit0 /\ UAIdle /\ SaveIdle /\ WireIdle /\ MakeIdle /\ BaseIdle /\ RowsIdle
    /\ ExtendIdle /\ WidthIdle /\ EdgeIdle /\ CopyIdle
FoldInit ==
    FoldInit0 /\ UAIdle /\ SaveIdle /\ WireIdle /\ MakeIdle /\ BaseIdle /\ RowsIdle
    /\ ExtendIdle /\ WidthIdle /\ EdgeIdle /\ CopyIdle
SaveInit == SaveInit0 /\ TileIdle /\ UAIdle /\ WireIdle /\ MakeIdle /\ BaseIdle /\ RowsIdle /\ ExtendIdle /\ WidthIdle /\ EdgeIdle /\ CopyIdle
WireInit == WireInit0 /\ TileIdle /\ UAIdle /\ SaveIdle /\ MakeIdle /\ BaseIdle /\ RowsIdle /\ ExtendIdle /\ WidthIdle /\ EdgeIdle /\ CopyIdle
MakeInit == MakeInit0 /\ TileIdle /\ UAIdle /\ SaveIdle /\ WireIdle /\ BaseIdle /\ RowsIdle /\ ExtendIdle /\ WidthIdle /\ EdgeIdle /\ CopyIdle
BaseInit == BaseInit0 /\ TileIdle /\ UAIdle /\ SaveIdle /\ WireIdle /\ MakeIdle /\ RowsIdle /\ ExtendIdle /\ WidthIdle /\ EdgeIdle /\ CopyIdle
RowsInit ==
    RowsInit0 /\ TileIdle /\ UAIdle /\ SaveIdle /\ WireIdle /\ MakeIdle /\ BaseIdle
    /\ ExtendIdle /\ WidthIdle /\ EdgeIdle /\ CopyIdle
RowsOneInit ==
    RowsOneInit0 /\ TileIdle /\ UAIdle /\ SaveIdle /\ WireIdle /\ MakeIdle /\ BaseIdle
    /\ ExtendIdle /\ WidthIdle /\ EdgeIdle /\ CopyIdle
ExtendInit ==
    ExtendInit0 /\ TileIdle /\ UAIdle /\ SaveIdle /\ WireIdle /\ MakeIdle /\ BaseIdle
    /\ RowsIdle /\ WidthIdle /\ EdgeIdle /\ CopyIdle
WidthInit ==
    WidthInit0 /\ TileIdle /\ UAIdle /\ SaveIdle /\ WireIdle /\ MakeIdle /\ BaseIdle
    /\ RowsIdle /\ ExtendIdle /\ EdgeIdle /\ CopyIdle
EdgeInit ==
    EdgeInit0 /\ TileIdle /\ UAIdle /\ SaveIdle /\ WireIdle /\ MakeIdle /\ BaseIdle
    /\ RowsIdle /\ ExtendIdle /\ WidthIdle /\ CopyIdle
CopyInit ==
    CopyInit0 /\ TileIdle /\ UAIdle /\ SaveIdle /\ WireIdle /\ MakeIdle /\ BaseIdle
    /\ RowsIdle /\ ExtendIdle /\ WidthIdle /\ EdgeIdle

Spec == Init /\ [][Next]_vars

SpecTile == TileInit /\ [][TileNext]_vars

SpecSave == SaveInit /\ [][SaveNext]_vars

SpecWire == WireInit /\ [][WireNext]_vars

SpecMake == MakeInit /\ [][MakeNext]_vars

SpecBase == BaseInit /\ [][BaseNext]_vars

SpecExtend == ExtendInit /\ [][ExtendNext]_vars

SpecFold == FoldInit /\ [][FoldNext]_vars

SpecCopy == CopyInit /\ [][CopyNext]_vars

SpecEdge == EdgeInit /\ [][EdgeNext]_vars

SpecWidth == WidthInit /\ [][WidthNext]_vars

SpecRows == RowsInit /\ [][RowsNext]_vars

\* _place_rows runs on: every step it can take is eventually taken
SpecRowsFair == RowsOneInit /\ [][RowsNext]_vars /\ WF_vars(RowsNext)

\* ------------------------------------------------------------------------
\* Properties of the tile algebra
\* ------------------------------------------------------------------------

\* C5: for an element wrapping a single tile with (mirror, flip), get_tile_info(k)
\* returns that tile, y0 = k * tile.height and flip = ((k odd) AND mirror) XOR flip,
\* for every k >= 0 whatever mult is.
C5_SingleTileInfo ==
    (tp_elem.info.leaf /\ tp_op = "get_tile_info") =>
        \A i \in 1..Len(tp_infos) :
            LET k == i - 1
            IN /\ tp_infos[i].pinfo = tp_elem.info.tile
               /\ tp_infos[i].y0 = k * tile_height(tp_elem.info.tile)
               /\ tp_infos[i].flip =
                     (IF tp_elem.mirror THEN (IF Odd(k) THEN ~tp_elem.flip ELSE tp_elem.flip)
                      ELSE tp_elem.flip)

\* a mirrored, unflipped single tile queried beyond its mult at an odd index
C5_Witness ==
    /\ tp_elem.info.leaf /\ tp_elem.mirror /\ ~tp_elem.flip
    /\ tp_op = "get_tile_info"
    /\ Len(tp_infos) > tp_elem.mult + 1
    /\ tp_infos[2].flip /\ ~tp_infos[3].flip

\* C6: get_tile_info over 0..num_tiles-1 gives y0(0) = 0,
\* y0(k+1) = y0(k) + height(tile k), and y0(last) + height(last) = height.
C6_OffsetsTile ==
    tp_op = "get_tile_info" =>
        LET n == Min(Len(tp_infos), E_num_tiles(tp_elem))
        IN /\ tp_infos[1].y0 = 0
           /\ \A i \in 1..(n - 1) :
                 tp_infos[i + 1].y0 = tp_infos[i].y0 + tile_height(tp_infos[i].pinfo)
           /\ (Len(tp_infos) >= E_num_tiles(tp_elem)) =>
                 tp_infos[n].y0 + tile_height(tp_infos[n].pinfo) = E_height(tp_elem)

\* a doubly nested, flipped pattern with tiles of both heights fully enumerated
C6_Witness ==
    /\ tp_elem \in Deep /\ tp_elem.flip
    /\ tp_op = "get_tile_info"
    /\ Len(tp_infos) = E_num_tiles(tp_elem)
    /\ \E i, j \in 1..Len(tp_infos) : tp_infos[i].pinfo = "A" /\ tp_infos[j].pinfo = "B"

\* C7: flat_row_to_tile_row inverts get_flat_row_idx_and_flip for every element,
\* tile index and row index.
C7_FlatRowInverse ==
    tp_op = "flat_row" => tp_back = tp_arg

\* C8: S = E.get_sub_pattern_element(n, 1, False, False, start_idx=s) reports, for
\* every i in 0..n-1, the same tile and the same flip flag as E at s + i.
C8_SubPatternPreserves ==
    tp_op = "sub_pattern" =>
        \A i \in 0..(tp_arg[2] - 1) :
            LET a == E_get_tile_info(tp_sub, i)
                b == E_get_tile_info(tp_elem, tp_arg[1] + i)
            IN a.pinfo = b.pinfo /\ a.flip = b.flip

\* ------------------------------------------------------------------------
\* Properties of the MOSUsedArray
\* ------------------------------------------------------------------------
Disjoint(a, b) == a.stop <= b.start \/ b.stop <= a.start

\* C1: after any sequence of add_mos / add_mos_raw / add_tiles calls, succeeding or
\* raising, the intervals recorded for every flat row are pairwise disjoint
\* (touching end to start is allowed).
C1_RowsDisjoint ==
    \A i \in 1..Len(ua.intvs) :
        \A a \in ua.intvs[i], b \in ua.intvs[i] : a # b => Disjoint(a, b)

\* an add_tiles call raised on an overlap after copying part of the instance, and
\* some row holds two devices touching end to start
C1_Witness ==
    /\ ua_last.op = "add_tiles" /\ ua_last.raised
    /\ \E i \in 1..Len(ua.intvs) :
          \E a \in ua.intvs[i], b \in ua.intvs[i] : a.stop = b.start
    /\ \E i \in 1..Len(ua.intvs) : Cardinality(ua.intvs[i]) >= 2

\* C2: add_mos_raw with an interval intersecting one already recorded in the same
\* flat row raises and leaves the row's intervals, the edge-info dictionary and
\* num_cols as they were.
C2_OverlapRaisesUnchanged ==
    [][(/\ ua_last'.op = "add_mos_raw"
        /\ ListIndexOk(ua, ua_last'.row)
        /\ \E iv \in ua.intvs[ListIndex(ua, ua_last'.row)] : Overlaps(iv, ua_last'.intv))
       => (/\ ua_last'.raised
           /\ ua'.intvs = ua.intvs
           /\ ua'.end_flags = ua.end_flags
           /\ ua'.num_cols = ua.num_cols)]_vars

\* the last add_mos_raw raised on an interval that overlaps a recorded one
C2_Witness ==
    /\ ua_last.op = "add_mos_raw" /\ ua_last.raised
    /\ ListIndexOk(ua, ua_last.row)
    /\ \E iv \in ua.intvs[ListIndex(ua, ua_last.row)] : Overlaps(iv, ua_last.intv)
    /\ ua.num_cols < ua_last.intv[2]

\* C3: num_cols and num_tiles never decrease; set_num_tiles(v) with v < num_tiles
\* and assigning num_cols a value below the current one raise and change nothing.
C3_Monotonic ==
    [][/\ ua'.num_cols >= ua.num_cols
       /\ ua'.num_tiles >= ua.num_tiles
       /\ (ua_last'.op = "set_num_tiles" /\ ua_last'.val < ua.num_tiles)
             => (ua_last'.raised /\ ua' = ua)
       /\ (ua_last'.op = "set_num_cols" /\ ua_last'.val < ua.num_cols)
             => (ua_last'.raised /\ ua' = ua)]_vars

\* a refused attempt to shrink an array that has grown to several tiles and columns
C3_Witness ==
    /\ ua_last.op \in {"set_num_tiles", "set_num_cols"} /\ ua_last.raised
    /\ ua.num_tiles > 1 /\ ua.num_cols > 0

\* ------------------------------------------------------------------------
\* Properties of the persisted layout
\* ------------------------------------------------------------------------

\* C4: saving a MOSArrayPlaceInfo or a tile and loading it back yields an object
\* equal to the original with the same hash, for every valid object.
C4_SaveLoadRoundTrip ==
    sv_pc = "loaded" =>
        /\ sv_loaded.arr_info = sv_table.arr_info
        /\ \A n \in DOMAIN sv_table.pinfo_dict :
              /\ n \in DOMAIN sv_loaded.pinfo_dict
              /\ MOSBasePlaceInfo_eq(sv_loaded.pinfo_dict[n], sv_table.pinfo_dict[n])
              /\ MOSBasePlaceInfo_hash(sv_loaded.pinfo_dict[n])
                    = MOSBasePlaceInfo_hash(sv_table.pinfo_dict[n])

\* ------------------------------------------------------------------------
\* Properties of wire graphs
\* ------------------------------------------------------------------------
EdgeEven(e) == e[1] \in wg.attrs[e[2]].even_spaces
EdgeMinIdx(e) ==
    get_next_track(wg.attrs[e[1]].idx, wg.attrs[e[1]].wtype, wg.attrs[e[2]].wtype,
                   ~EdgeEven(e), TRUE)

\* C9: after place_compact returns, for every edge (u, v) the track of v is at
\* least get_next_track(idx(u), wtype(u), wtype(v)), with whole-track spacing for
\* even-space pairs, also once the shared sinks have been moved to the upper edge.
C9_EdgesSpaced ==
    wg_pc = "placed" => \A e \in wg.edges : wg.attrs[e[2]].idx >= EdgeMinIdx(e)

\* a placed graph with an even-space pair and a shared sink moved above the
\* track the placement loop gave it
C9_Witness ==
    /\ wg_pc = "placed"
    /\ \E e \in wg.edges : EdgeEven(e)
    /\ \E e \in wg.edges :
          /\ wg.attrs[e[2]].shared
          /\ out_degree(wg, e[2]) = 0
          /\ wg.attrs[e[2]].idx > EdgeMinIdx(e)

\* C10: after place_compact and after align_wires every shared source wire is on
\* the track of lower and every shared sink wire on the track of upper, whatever
\* the alignment of its groups.
C10_SharedOnBoundary ==
    wg_pc \in {"placed", "aligned"} =>
        \A n \in NodeSet(wg) :
            wg.attrs[n].shared =>
                wg.attrs[n].idx = IF out_degree(wg, n) = 0
                                  THEN coord_to_track(wg.upper, "NONE")
                                  ELSE coord_to_track(wg.lower, "NONE")

\* C11: after align_wires(lower, upper) returns, the track of every wire has its
\* coordinate within [lower, upper], whatever the alignment of the groups.
C11_AlignedInBounds ==
    wg_pc = "aligned" =>
        \A n \in NodeSet(wg) :
            /\ track_to_coord(wg.attrs[n].idx) >= wg.lower
            /\ track_to_coord(wg.attrs[n].idx) <= wg.upper

\* C12: align_wires is idempotent: a second call with the same (lower, upper)
\* leaves the track index of every wire as the first call set it.
C12_AlignIdempotent ==
    [][(wg_pc = "aligned" /\ wg_pc' = "realigned") =>
          \A n \in NodeSet(wg) : wg'.attrs[n].idx = wg.attrs[n].idx]_vars


\* C15: place_compact on a wire graph with a dependency cycle, one that admits
\* no topological order, raises the dependency-loop error and returns no
\* placement: the graph keeps the bounds it was built with.
C15_CycleRaises ==
    [][(wg_pc = "built" /\ wg_pc' # "built" /\ TopoOrders(wg) = {}) =>
          /\ wg_pc' = "error"
          /\ wg'.lower = wg.lower
          /\ wg'.upper = wg.upper]_vars

\* two groups list the same two wires in opposite order and the call raised
C15_Witness ==
    /\ wg_pc = "error"
    /\ <<"a", "b">> \in wg.edges
    /\ <<"b", "a">> \in wg.edges
    /\ Len(wg.align_specs) = 2

\* the non-shared sources of the graph, in pairs of distinct wires
SourcePairs(g) ==
    {p \in NodeSet(g) \X NodeSet(g) :
        /\ p[1] # p[2]
        /\ in_degree(g, p[1]) = 0 /\ in_degree(g, p[2]) = 0
        /\ ~g.attrs[p[1]].shared /\ ~g.attrs[p[2]].shared}

\* idx(i) + idx(j) + 1 >= sep(wtype(i), wtype(j)), in doubled tracks
MirrorLegal(g, p) ==
    g.attrs[p[1]].idx + g.attrs[p[2]].idx + 2
        >= get_sep(g.attrs[p[1]].wtype, g.attrs[p[2]].wtype, TRUE)

\* C17: when place_compact(bot_mirror=True) returns normally, every pair of
\* distinct non-shared source wires i, j has idx(i) + idx(j) + 1 >= sep(i, j).
C17_BotMirrorLegal ==
    (wg_pc = "placed" /\ wg_call.bot_mirror) =>
        \A p \in SourcePairs(wg) : MirrorLegal(wg, p)


\* the tiles before the last entry of abut_list is handled
BeforeLast ==
    abut_loop(mt_specs.place_info,
              SubSeq(mt_specs.abut_list, 1, Len(mt_specs.abut_list) - 1))
LastAbut == mt_specs.abut_list[Len(mt_specs.abut_list)]

\* the last abutment needs an extension
NeedsExtension ==
    /\ ~BeforeLast.raised
    /\ get_abut_info(BeforeLast.pinfo_dict[LastAbut.name1], BeforeLast.pinfo_dict[LastAbut.name2],
                     LastAbut.top_edge1, LastAbut.top_edge2, LastAbut.wmargin,
                     LastAbut.ext_w_info).margin > 0

Mirror1 == get_mirror(BeforeLast.pinfo_dict[LastAbut.name1], LastAbut.top_edge1)
Mirror2 == get_mirror(BeforeLast.pinfo_dict[LastAbut.name2], LastAbut.top_edge2)
Priority1 == BeforeLast.pinfo_dict[LastAbut.name1].priority
Priority2 == BeforeLast.pinfo_dict[LastAbut.name2].priority

\* C13: when an abutment needs an extension, both abutting edges have the same
\* mirror flag and the two tiles have equal extend_priority, make_tiles raises
\* and returns no table.
C13_TieRaises ==
    (mt_pc \in {"done", "error"} /\ NeedsExtension /\ Mirror1 = Mirror2
        /\ Priority1 = Priority2) =>
        (mt_pc = "error" /\ mt_table = EmptyLookup)

\* two different tiles, both mirrored on the abutting edge, priorities tied
C13_Witness ==
    /\ mt_pc = "error"
    /\ NeedsExtension
    /\ LastAbut.name1 # LastAbut.name2
    /\ Mirror1 /\ Mirror2
    /\ Priority1 = Priority2

\* the name of the tile the extension rule names: the tile without the mirror
\* constraint when exactly one edge has it, else the tile of lower priority
RuleExtends ==
    IF Mirror1 # Mirror2 THEN (IF Mirror1 THEN LastAbut.name2 ELSE LastAbut.name1)
    ELSE IF Priority1 < Priority2 THEN LastAbut.name1 ELSE LastAbut.name2

\* C14: for an abutment that needs an extension, the tile the extension rule
\* names is the one extended and the other tile is left unchanged.
C14_ExtensionRule ==
    (mt_pc = "done" /\ NeedsExtension) =>
        /\ mt_table[RuleExtends] # BeforeLast.pinfo_dict[RuleExtends]
        /\ \A n \in AbutTileNames \ {RuleExtends} : mt_table[n] = BeforeLast.pinfo_dict[n]


\* the call the step made, repeated on the state before it with the tile index
\* wrapped: tile_idx = num_tiles + t
WrappedAddMos ==
    MOSBase_add_mos(mb_ua, mb_size, mb_last'.row_idx, mb_last'.col_idx, mb_last'.seg,
                    mb_ua.num_tiles + mb_last'.tile_idx, mb_last'.flip_lr)

\* C16: once the array size is defined, add_mos with tile_idx = t < 0 registers
\* the device and places it at the same tile, flat row and Y coordinate as
\* add_mos with tile_idx = num_tiles + t; it raises when num_tiles + t is still
\* negative or the size is not yet defined.
C16_NegativeTileWraps ==
    [][(mb_nops' = mb_nops + 1 /\ mb_last'.op = "add_mos" /\ mb_last'.tile_idx < 0) =>
          IF mb_size /\ mb_ua.num_tiles + mb_last'.tile_idx >= 0
          THEN /\ mb_last'.raised = WrappedAddMos.raised
               /\ mb_ua' = WrappedAddMos.u
               /\ mb_last'.y0 = WrappedAddMos.y0
          ELSE mb_last'.raised]_vars


\* C18: _place_rows terminates for every input: it returns or raises.
C18_PlaceRowsTerminates == <>(rp_pc \in {"done", "copied", "error"})

\* the widths the extension oracle allows between 0 and w
LegalWidths(info, w) == {x \in 0..w : ExtWidthInfo_is_valid(info, x)}

\* C19: the gap between the block of a row and the block of the row above it
\* is a multiple of blk_h_pitch and a legal extension width, also after the
\* line-end fixup moved the upper row; when no wire asks for room it is the
\* smallest legal width.
C19_GapLegal ==
    \A i \in 1..(Len(rp_out) - 1) :
        LET gap == rp_out[i + 1].yb_blk - rp_out[i].yt_blk
            w == gap \div BlkHPitch
        IN /\ gap % BlkHPitch = 0
           /\ ExtWidthInfo_is_valid(rp_in.ext, w)
           /\ (rp_in.rows[i].top_dy = 0 /\ rp_in.rows[i + 1].wire_dy = 0
                 /\ ~rp_out[i + 1].moved) => LegalWidths(rp_in.ext, w) = {w}

\* two rows placed, the upper one moved up by the line-end fixup
C19_Witness ==
    /\ rp_pc = "done"
    /\ Len(rp_out) = 2
    /\ rp_out[2].moved
    /\ rp_out[2].yb_blk - rp_out[1].yt_blk > 0
    /\ rp_in.ext.step > 1

\* C20: with bot_mirror the bottom extension e of the first row is
\* mirror-legal: 2 * e is a legal extension width, also when a shared bottom
\* wire made the line-end fixup move the row up.
C20_BottomMirrorLegal ==
    (rp_in.bot_mirror /\ Len(rp_out) >= 1) =>
        /\ rp_out[1].yb_blk % BlkHPitch = 0
        /\ ExtWidthInfo_is_valid(rp_in.ext, 2 * (rp_out[1].yb_blk \div BlkHPitch))


\* the height of a tile: the top of its last row
TileHeight(pinfo) == pinfo.pinfo_list[Len(pinfo.pinfo_list)].yt

\* C21: get_extend either returns a tile whose height grew by d, with
\* d >= margin, d a multiple of the top-layer block height and
\* (cur_em + other_em + d) / blk_h_pitch a legal extension width, or it raises
\* after max_iter passes of its loop.
C21_ExtendQuantized ==
    ge_res # NoExtend =>
        LET d == TileHeight(ge_res.pinfo) - TileHeight(ge_call.pinfo)
            tot == ge_call.cur_em + ge_call.other_em + d
        IN IF ge_res.raised THEN ge_res.iters = ge_call.max_iter
           ELSE /\ ge_res.iters <= ge_call.max_iter
                /\ d >= ge_call.margin
                /\ d % TotHPitch = 0
                /\ tot % BlkHPitch = 0
                /\ ExtWidthInfo_is_valid(ge_call.ext_w_info, tot \div BlkHPitch)

\* the first legal extension was not quantized and the loop asked for more
C21_Witness ==
    /\ ge_res # NoExtend
    /\ ~ge_res.raised
    /\ ge_res.iters >= 2
    /\ ge_call.ext_w_info.step > 1
    /\ TileHeight(ge_res.pinfo) - TileHeight(ge_call.pinfo) > ge_call.margin


\* C26: the tile get_extend returns has the name, array info, mirror flags,
\* options, extend priority, number of rows and per-row row_info of the
\* original, and get_hm_track_info answers the same for every wire the
\* original knew.
C26_ExtendFrame ==
    (ge_res # NoExtend /\ ~ge_res.raised) =>
        LET old == ge_call.pinfo
            new == ge_res.pinfo
        IN /\ new.name = old.name
           /\ new.arr_info = old.arr_info
           /\ new.bot_mirror = old.bot_mirror /\ new.top_mirror = old.top_mirror
           /\ new.options = old.options
           /\ new.priority = old.priority
           /\ Len(new.pinfo_list) = Len(old.pinfo_list)
           /\ \A i \in 1..Len(old.pinfo_list) :
                  new.pinfo_list[i].row_info = old.pinfo_list[i].row_info
           /\ \A lay \in DOMAIN old.wire_lookup : \A k \in DOMAIN old.wire_lookup[lay] :
                  get_hm_track_info(new, lay, k) = get_hm_track_info(old, lay, k)


\* the valid widths, or the valid even widths, from lo to hi
ValidWidths(info, lo, hi, even) ==
    {x \in lo..hi : ExtWidthInfo_is_valid(info, x) /\ (even => ~Odd(x))}

\* C25: get_next_width(w) returns the least valid width >= w; with even=True
\* it returns the least even valid width >= w and raises only when there is
\* none (from w_min on the valid widths repeat every step, so two steps past
\* w_min show whether an even one exists).
C25_NextWidthLeast ==
    nw_res # NoWidth =>
        LET info == nw_call.info
            w == nw_call.w
            far == Max(w, info.wmin) + 2 * info.step
        IN IF nw_res.raised
           THEN nw_call.even /\ ValidWidths(info, w, far, TRUE) = {}
           ELSE /\ nw_res.w >= w
                /\ nw_res.w \in ValidWidths(info, w, nw_res.w, nw_call.even)
                /\ ValidWidths(info, w, nw_res.w - 1, nw_call.even) = {}

\* an even width is asked for below w_min, the discrete widths from w on are
\* odd and the answer lies on the steps above w_min
C25_Witness ==
    /\ nw_res # NoWidth
    /\ ~nw_res.raised
    /\ nw_call.even
    /\ nw_call.w < nw_call.info.wmin
    /\ bisect_left(nw_call.info.discrete_widths, nw_call.w) < Len(nw_call.info.discrete_widths)
    /\ nw_res.w > nw_call.info.wmin


RowOrdered(rp) == rp.yb <= rp.yb_blk /\ rp.yb_blk <= rp.yt_blk /\ rp.yt_blk <= rp.yt

\* C22: every RowPlaceInfo of _place_rows and every copy get_extend (either
\* edge, delta >= 0) or get_move makes of one has yb <= yb_blk <= yt_blk <= yt,
\* and the row the copy was made from keeps its fields.
C22_RowOrdered ==
    /\ \A i \in 1..Len(rp_out) : RowOrdered(rp_out[i])
    /\ rp_copy # NoCopy => (RowOrdered(rp_copy.row) /\ rp_out[rp_copy.idx] = rp_copy.self)

\* a row whose block touches the top of the row, extended at the bottom
C22_Witness ==
    /\ rp_copy # NoCopy
    /\ rp_copy.op = "get_extend"
    /\ ~rp_copy.top_edge
    /\ rp_copy.delta > 0
    /\ rp_copy.self.yt = rp_copy.self.yt_blk
    /\ rp_copy.self.yb < rp_copy.self.yb_blk


\* the nested element get_sub_pattern_element simplifies: q units of E as the
\* only element of a pattern repeated mult times
Unsimplified ==
    TilePatternElement(
        InfoPattern(<<TilePatternElement(tp_elem.info, tp_elem.mirror, tp_elem.flip,
                                         tp_arg[1])>>),
        tp_arg[3], tp_arg[4], tp_arg[2])

\* C23: E.get_sub_pattern_element(q * num_tiles_unit, mult, mirror, flip) lists,
\* index by index over all q * mult units, the tiles and flip flags of the
\* nested element it stands for.
C23_SimplifyPreserves ==
    tp_op = "sub_whole" =>
        /\ E_num_tiles(tp_sub) = E_num_tiles(Unsimplified)
        /\ \A i \in 0..(E_num_tiles(Unsimplified) - 1) :
              LET a == E_get_tile_info(tp_sub, i)
                  b == E_get_tile_info(Unsimplified, i)
              IN a.pinfo = b.pinfo /\ a.flip = b.flip

\* a mirrored element of several tiles, an odd number of units above one,
\* repeated and flipped: the result is not the nested element itself
C23_Witness ==
    /\ tp_op = "sub_whole"
    /\ ~tp_elem.info.leaf
    /\ tp_elem.mirror
    /\ tp_arg[1] > 1
    /\ tp_arg[2] > 1
    /\ tp_arg[4]
    /\ tp_sub # Unsimplified


\* the edge info a device shows on its left and on its right side
PhysLeft(d) == IF d.flip_lr THEN d.right ELSE d.left
PhysRight(d) == IF d.flip_lr THEN d.left ELSE d.right

\* one record for every column where two devices of a row touch
ExpectedAbuts ==
    {<<a.row, a.stop, PhysRight(a), PhysLeft(b)>> :
        <<a, b>> \in {p \in ed_devs \X ed_devs : p[1].row = p[2].row
                                                   /\ p[1].stop = p[2].start}}

\* C24: when a device added by add_mos_raw touches a recorded device of its
\* flat row at column c and an abut_list and edge infos are given, exactly one
\* record (row, c, edgel, edger) is appended, edgel the touching edge of the
\* device left of c and edger that of the device right of c, whichever was
\* added first and whatever their flip_lr.
C24_AbutRecorded ==
    /\ Len(ed_abut) = Cardinality(ExpectedAbuts)
    /\ {ed_abut[i] : i \in 1..Len(ed_abut)} = ExpectedAbuts

\* a flipped device added to the left of an unflipped one added before it
C24_Witness ==
    /\ Len(ed_abut) >= 1
    /\ \E a \in ed_devs, b \in ed_devs :
          /\ a.row = b.row /\ a.stop = b.start
          /\ a.flip_lr /\ ~b.flip_lr
          /\ a.left = LeftInfos[2] /\ b.left = LeftInfos[1]

\* the end columns of row r that belong to exactly one recorded interval
ExposedEnds ==
    {<<r, c>> \in (0..(num_flat_rows(ed_ua) - 1)) \X ((0 - 2)..(MaxCol + 4)) :
        Cardinality({d \in ed_devs : d.row = r /\ (d.start = c \/ d.stop = c)}) = 1}

\* C27: the edge dictionary has an entry for (flat_row, c) exactly when c is
\* an end column of exactly one recorded interval of the row.
C27_ExposedEdges ==
    DOMAIN ed_ua.end_flags = ExposedEnds

\* three devices in a row: two abutting columns without an entry, two exposed ends
C27_Witness ==
    \E r \in 0..(num_flat_rows(ed_ua) - 1) :
        /\ Cardinality({d \in ed_devs : d.row = r}) = 3
        /\ Cardinality({k \in DOMAIN ed_ua.end_flags : k[1] = r}) = 2
        /\ Len(ed_abut) = 2


\* the items of flat row my_row of array u that cover exactly interval intv
ItemsAt(u, my_row, intv) ==
    {iv \in u.intvs[my_row + 1] : iv.start = intv[1] /\ iv.stop = intv[2]}

\* the devices of call c's instance are found in array u at their target rows,
\* with (bottom, top) kept when the instance is not flipped vertically and
\* exchanged when it is
CopiedInfoKept(c, base, u) ==
    LET flip_ud == Xor(E_get_tile_info(base.element, c.tile_idx).flip,
                       E_get_tile_info(c.used_arr.element, 0).flip)
        row_idx_offset == IF flip_ud
                          THEN E_num_tiles_to_rows(base.element, c.tile_idx + 1) - 1
                          ELSE E_num_tiles_to_rows(base.element, c.tile_idx)
        scale == IF flip_ud THEN -1 ELSE 1
        sign == IF c.flip_lr THEN -1 ELSE 1
    IN \A inst_row \in 0..(num_flat_rows(c.used_arr) - 1) :
       \A it \in c.used_arr.intvs[inst_row + 1] :
          LET intv == get_interval(c.col_idx + sign * it.start, it.stop - it.start,
                                   c.flip_lr)
              found == ItemsAt(u, row_idx_offset + scale * inst_row, intv)
          IN /\ found # {}
             /\ \A iv \in found :
                   iv.val = IF flip_ud THEN <<it.val[2], it.val[1]>> ELSE it.val

\* C28: add_tiles keeps the bottom/top extension info of every copied device
\* when the instance is placed without vertical flip, in flipped as well as
\* unflipped base tiles, and exchanges bottom and top when it is placed
\* vertically flipped.
C28_CopyKeepsExtInfo ==
    [][(ct_call'.op = "add_tiles" /\ ~ct_call'.raised)
         => CopiedInfoKept(ct_call', ct_ua, ct_ua')]_vars


\* the combined extension margin of the two edges of abutment val in tiles
EdgeMarginTot(tiles, val) ==
    LET rows1 == tiles[val.name1].pinfo_list
        rows2 == tiles[val.name2].pinfo_list
    IN RowPlaceInfo_get_ext_margin(rows1[IF val.top_edge1 THEN Len(rows1) ELSE 1],
                                   val.top_edge1)
       + RowPlaceInfo_get_ext_margin(rows2[IF val.top_edge2 THEN Len(rows2) ELSE 1],
                                     val.top_edge2)

\* the tiles when entry k of abut_list is reached
TilesBefore(k) ==
    abut_loop(mt_specs.place_info, SubSeq(mt_specs.abut_list, 1, k - 1)).pinfo_dict

\* the wire margin of entry k on the final tiles: every wire and connection
\* keeps its distance to the block, so the margin that was left when the
\* entry was handled shrinks by what the two edges were extended since
FinalWireMargin(k) ==
    LET val == mt_specs.abut_list[k]
    IN Max(0, val.wmargin - (EdgeMarginTot(mt_table, val)
                               - EdgeMarginTot(TilesBefore(k), val)))

\* get_abut_info of entry k recomputed on the final tiles
FinalAbutInfo(k) ==
    LET val == mt_specs.abut_list[k]
    IN get_abut_info(mt_table[val.name1], mt_table[val.name2], val.top_edge1,
                     val.top_edge2, FinalWireMargin(k), val.ext_w_info)

\* C29: when make_tiles returns, get_abut_info recomputed on the final tiles
\* gives margin 0 for every entry of abut_list, also when an edge is extended
\* again for a later entry.
C29_AbutmentsSatisfied ==
    mt_pc = "done" =>
        \A k \in 1..Len(mt_specs.abut_list) : FinalAbutInfo(k).margin = 0


\* the lowest track of the sink of edge e that its source allows
EdgeNextTrack(e) ==
    get_next_track(wg.attrs[e[1]].idx, wg.attrs[e[1]].wtype, wg.attrs[e[2]].wtype, TRUE, TRUE)

\* C30: after place_compact followed by align_wires(lower, upper), every edge
\* (u, v) of the graph still has idx(v) >= get_next_track(idx(u), wtype(u),
\* wtype(v)), whatever the groups and their alignments.
C30_AlignKeepsSpacing ==
    wg_pc = "aligned" => \A e \in wg.edges : wg.attrs[e[2]].idx >= EdgeNextTrack(e)

====
